---- MODULE Spec2Model ----
(***************************************************************************)
(* A model of yt-fetch's orchestration core:                               *)
(*   - process_video      (yt_fetch/core/pipeline.py), one unit's stages   *)
(*   - process_batch      (yt_fetch/core/pipeline.py), the asyncio workers *)
(*   - TokenBucket        (yt_fetch/utils/rate_limit.py)                   *)
(*   - retry              (yt_fetch/utils/retry.py)                        *)
(*   - fetch_batch        (yt_fetch/__init__.py, core/id_parser.py)        *)
(*   - _exit_code         (yt_fetch/cli.py)                                *)
(*   - _atomic_write_*    (yt_fetch/core/writer.py)                        *)
(* The specifications share the pure operators:                            *)
(*   UnitSpec       repeated process_video runs on one unit directory      *)
(*   BucketSpec     threads calling TokenBucket.acquire while time passes  *)
(*   Spec           one process_batch call                                 *)
(*   RetrySpec      one call of a function wrapped by retry                *)
(*   FetchBatchSpec one fetch_batch call                                   *)
(*   ExitSpec       the exit code of a CLI command                         *)
(*   WriterSpec     atomic writes on one destination file                  *)
(* BucketFairSpec and FairSpec add the scheduling of threads and time.     *)
(***************************************************************************)
EXTENDS Integers, Sequences, FiniteSets, TLC

(***************************************************************************)
(* Bounds of the model.                                                    *)
(***************************************************************************)
\* process_video runs made on the unit directory in UnitSpec
MaxRuns == 2

\* BucketSpec: threads that call acquire, and the largest capacity in tokens
NThreads == 2

MaxCapacity == 2

\* RetrySpec: the largest max_retries
MaxRetries == 2

\* Spec: the longest input list and the largest options.workers
MaxUnits == 2

MaxWorkers == 2

\* WriterSpec: the threads that write one destination, and the writes begun
NWriters == 2

MaxWrites == 3

\* Token amounts are counted in units of 1/Scale token and time in ticks of
\* 1/(Scale * rate) seconds, so that elapsed * rate is a whole number of
\* units: one tick refills one unit, 1/rate seconds are Scale ticks.
Scale == 2

(***************************************************************************)
(* Values.                                                                 *)
(***************************************************************************)
\* Python's None for a Path | None field; a path is <<video_id, file name>>
None == <<>>

Path(video_id, name) == <<video_id, name>>

Stages == {"metadata", "transcript", "media"}

\* the unit UnitSpec works on
UnitId == "a"

(***************************************************************************)
(* FetchOptions.  download and ffmpeg_fallback are the configuration of a  *)
(* behaviour; the force flags are chosen per run.                          *)
(***************************************************************************)
DownloadModes == {"none", "video", "audio", "both"}

FallbackModes == {"error", "skip"}

ForceFlags == [force : BOOLEAN, force_metadata : BOOLEAN,
               force_transcript : BOOLEAN, force_media : BOOLEAN]

\* the defaults of the four force fields
NoForce == [force |-> FALSE, force_metadata |-> FALSE,
            force_transcript |-> FALSE, force_media |-> FALSE]

\* retries, rate_limit, workers and fail_fast are given their defaults here
FetchOptions(flags, download, fallback) ==
    [force |-> flags.force, force_metadata |-> flags.force_metadata,
     force_transcript |-> flags.force_transcript, force_media |-> flags.force_media,
     download |-> download, ffmpeg_fallback |-> fallback,
     retries |-> 3, rate_limit |-> 2, workers |-> 3, fail_fast |-> FALSE]

AnyForce(o) == o.force \/ o.force_metadata \/ o.force_transcript \/ o.force_media

(***************************************************************************)
(* The unit directory <out>/<video_id>/.  A file is 0 when absent, else    *)
(* the stamp of the process_video call that wrote it (each fetch carries   *)
(* its own fetched_at, so two fetches never write equal content).          *)
(***************************************************************************)
EmptyDir ==
    [metadata_json |-> 0, transcript_json |-> 0, transcript_txt |-> 0,
     transcript_vtt |-> 0, transcript_srt |-> 0,
     media_dir |-> FALSE, media |-> {}]

(***************************************************************************)
(* A file that exists but does not hold a record (not JSON, or fields      *)
(* missing) has the content Malformed; MalformedDir is a unit directory    *)
(* whose metadata and transcript files are all of that kind.               *)
(***************************************************************************)
Malformed == -1

MalformedDir ==
    [EmptyDir EXCEPT !.metadata_json = Malformed,
                     !.transcript_json = Malformed,
                     !.transcript_txt = Malformed,
                     !.transcript_vtt = Malformed,
                     !.transcript_srt = Malformed]

(***************************************************************************)
(* write_metadata and the four transcript writers: each is one atomic      *)
(* replace of its destination file.                                        *)
(***************************************************************************)
write_metadata(d, stamp) == [d EXCEPT !.metadata_json = stamp]

write_transcript_json(d, stamp) == [d EXCEPT !.transcript_json = stamp]

write_transcript_txt(d, stamp) == [d EXCEPT !.transcript_txt = stamp]

write_transcript_vtt(d, stamp) == [d EXCEPT !.transcript_vtt = stamp]

write_transcript_srt(d, stamp) == [d EXCEPT !.transcript_srt = stamp]

\* the first k of the four transcript writes of pipeline.py lines 87-90
TranscriptWrites(d, stamp, k) ==
    LET d1 == IF k >= 1 THEN write_transcript_json(d, stamp) ELSE d
        d2 == IF k >= 2 THEN write_transcript_txt(d1, stamp) ELSE d1
        d3 == IF k >= 3 THEN write_transcript_vtt(d2, stamp) ELSE d2
    IN  IF k >= 4 THEN write_transcript_srt(d3, stamp) ELSE d3

(***************************************************************************)
(* download_media.  What the environment does is the outcome `out`:        *)
(*   ffmpeg   whether check_ffmpeg() finds ffmpeg                          *)
(*   video, audio   what yt-dlp does for each requested download:          *)
(*       "file"    the file is written and reported by the progress hook   *)
(*       "nothing" yt-dlp returns without a finished file                  *)
(*       "error"   DownloadError, re-raised as MediaError                  *)
(*       "notrun"  not requested, or not reached                           *)
(* The result: raised (an exception leaves download_media), paths,         *)
(* skipped, errors and the directory afterwards.                           *)
(***************************************************************************)
WantsVideo(o) == o.download \in {"video", "both"}

WantsAudio(o) == o.download \in {"audio", "both"}

MediaResults == {"file", "nothing", "error", "notrun"}

\* the outcomes the code can produce under options o: without ffmpeg nothing
\* is run; a download runs exactly when it is requested and reached
MediaOutcomes(o) ==
    {out \in [ffmpeg : BOOLEAN, video : MediaResults, audio : MediaResults] :
        IF ~out.ffmpeg
        THEN out.video = "notrun" /\ out.audio = "notrun"
        ELSE /\ (out.video = "notrun") <=> ~WantsVideo(o)
             /\ (out.audio = "notrun") <=> (~WantsAudio(o) \/ out.video = "error")}

FfmpegMessage == [prefix |-> "", exc |-> "ffmpeg not found, skipped media download"]

download_media(o, d, out) ==
    IF o.download = "none"
    THEN [raised |-> FALSE, paths |-> {}, skipped |-> TRUE,
          errors |-> <<>>, dir |-> d]
    ELSE IF ~out.ffmpeg
    THEN IF o.ffmpeg_fallback = "skip"
         THEN [raised |-> FALSE, paths |-> {}, skipped |-> TRUE,
               errors |-> <<FfmpegMessage>>, dir |-> d]
         ELSE [raised |-> TRUE, paths |-> {}, skipped |-> FALSE,
               errors |-> <<>>, dir |-> d]
    ELSE LET files == (IF out.video = "file" THEN {"video"} ELSE {}) \cup
                      (IF out.audio = "file" THEN {"audio"} ELSE {})
             d1 == [d EXCEPT !.media_dir = TRUE, !.media = d.media \cup files]
         IN  [raised |-> out.video = "error" \/ out.audio = "error",
              paths |-> files, skipped |-> FALSE, errors |-> <<>>, dir |-> d1]

(***************************************************************************)
(* process_video.  Its locals are a record l; pc is the position:          *)
(*   "mkdir" -> "metadata" -> "transcript" -> "media" -> "return"          *)
(*   -> "done" (a FetchResult is returned) or "raised" (an exception left  *)
(*   process_video).                                                       *)
(* calls counts the collaborator calls of this run; outcome records what   *)
(* each stage did: "none", "fetched", "cached", "failed" (the stage's      *)
(* except clause ran), "skipped" (download_media returned skipped) or      *)
(* "raised"; exc is the exception that left process_video ("" when none).  *)
(***************************************************************************)
NewCall(video_id, stamp) ==
    [video_id |-> video_id, stamp |-> stamp, pc |-> "mkdir",
     errors |-> <<>>, metadata |-> 0, transcript |-> 0,
     metadata_path |-> None, transcript_path |-> None, media_paths |-> {},
     calls |-> [s \in Stages |-> 0],
     outcome |-> [s \in Stages |-> "none"],
     exc |-> ""]

\* a process_video call that is not running
NoCall == [NewCall("", 0) EXCEPT !.pc = "idle"]

ErrorEntry(stage, exc) == [prefix |-> stage, exc |-> exc]

\* mutant: the cache probe of the metadata stage is dropped
should_fetch_metadata_always(o, d) == TRUE

should_fetch_metadata(o, d) ==
    o.force \/ o.force_metadata \/ d.metadata_json = 0

\* mutant: the transcript stage forgets the global force flag
should_fetch_transcript_noforce(o, d) ==
    o.force_transcript \/ d.transcript_json = 0

should_fetch_transcript(o, d) ==
    o.force \/ o.force_transcript \/ d.transcript_json = 0

\* mutant: any force flag downloads the media again
should_download_media_anyflag(o, d) ==
    AnyForce(o) \/ ~d.media_dir \/ (d.media_dir /\ d.media = {})

should_download_media(o, d) ==
    o.force \/ o.force_media \/ ~d.media_dir \/ (d.media_dir /\ d.media = {})

\* lines 41-43: video_dir.mkdir(parents=True, exist_ok=True); ok is whether
\* the directory could be created
MkdirStep(l, ok) ==
    IF ok THEN [l EXCEPT !.pc = "metadata"]
    ELSE [l EXCEPT !.pc = "raised", !.exc = "OSError"]

\* mutant: the stages have no except clause
Caught_nothing(stage, exc) == FALSE

\* lines 67, 92, 119: the except clause of the stage catches exc
Caught(stage, exc) ==
    CASE stage = "metadata" -> exc = "MetadataError"
      [] stage = "transcript" -> exc = "TranscriptError"
      [] OTHER -> TRUE

(***************************************************************************)
(* Lines 52-72, the metadata stage.  out is what get_metadata and          *)
(* write_metadata do: "ok", "MetadataError", or "fault" (any other         *)
(* exception of the call or of the write, which no except clause catches). *)
(***************************************************************************)
MetadataOutcomes == {"ok", "MetadataError", "fault"}

\* lines 61-69: the call, the write and the except clause
MetadataFetch(l, d, out) ==
    LET called == [l EXCEPT !.calls["metadata"] = @ + 1] IN
    CASE out = "ok" ->
           [l |-> [called EXCEPT !.metadata = l.stamp,
                                 !.metadata_path = Path(l.video_id, "metadata.json"),
                                 !.outcome["metadata"] = "fetched",
                                 !.pc = "transcript"],
            d |-> write_metadata(d, l.stamp)]
      [] Caught("metadata", out) ->
           [l |-> [called EXCEPT !.errors = Append(@, ErrorEntry("metadata", out)),
                                 !.outcome["metadata"] = "failed",
                                 !.pc = "transcript"],
            d |-> d]
      [] OTHER ->
           [l |-> [called EXCEPT !.outcome["metadata"] = "raised", !.pc = "raised",
                                 !.exc = out],
            d |-> d]

\* lines 70-72
MetadataCached(l) ==
    [l EXCEPT !.metadata_path = Path(l.video_id, "metadata.json"),
              !.outcome["metadata"] = "cached",
              !.pc = "transcript"]

MetadataStage(l, d, o, out) ==
    IF should_fetch_metadata(o, d)
    THEN MetadataFetch(l, d, out)
    ELSE [l |-> MetadataCached(l), d |-> d]

(***************************************************************************)
(* Lines 74-97, the transcript stage.  out.kind is "ok", "TranscriptError" *)
(* or "fault"; a fault happens after out.writes of the four writes (0: in  *)
(* get_transcript or in the first write).                                  *)
(***************************************************************************)
TranscriptOutcomes ==
    {[kind |-> "ok", writes |-> 4], [kind |-> "TranscriptError", writes |-> 0]}
    \cup {[kind |-> "fault", writes |-> k] : k \in 0..3}

\* lines 83-94
TranscriptFetch(l, d, out) ==
    LET called == [l EXCEPT !.calls["transcript"] = @ + 1] IN
    CASE out.kind = "ok" ->
           [l |-> [called EXCEPT !.transcript = l.stamp,
                                 !.transcript_path = Path(l.video_id, "transcript.json"),
                                 !.outcome["transcript"] = "fetched",
                                 !.pc = "media"],
            d |-> TranscriptWrites(d, l.stamp, 4)]
      [] Caught("transcript", out.kind) ->
           [l |-> [called EXCEPT !.errors = Append(@, ErrorEntry("transcript", out.kind)),
                                 !.outcome["transcript"] = "failed",
                                 !.pc = "media"],
            d |-> TranscriptWrites(d, l.stamp, out.writes)]
      [] OTHER ->
           [l |-> [called EXCEPT !.outcome["transcript"] = "raised", !.pc = "raised",
                                 !.exc = out.kind],
            d |-> TranscriptWrites(d, l.stamp, out.writes)]

\* mutant: a cached transcript is skipped without reporting its path
TranscriptCached_nopath(l) ==
    [l EXCEPT !.outcome["transcript"] = "cached", !.pc = "media"]

\* lines 95-97
TranscriptCached(l) ==
    [l EXCEPT !.transcript_path = Path(l.video_id, "transcript.json"),
              !.outcome["transcript"] = "cached",
              !.pc = "media"]

TranscriptStage(l, d, o, out) ==
    IF should_fetch_transcript(o, d)
    THEN TranscriptFetch(l, d, out)
    ELSE [l |-> TranscriptCached(l), d |-> d]

(***************************************************************************)
(* Lines 99-124, the media stage; every exception of download_media is     *)
(* caught (except Exception).                                              *)
(***************************************************************************)
\* lines 110-121
MediaFetch(l, d, o, out) ==
    LET called == [l EXCEPT !.calls["media"] = @ + 1]
        result == download_media(o, d, out)
    IN  IF result.raised /\ Caught("media", "MediaError")
        THEN [l |-> [called EXCEPT
                        !.errors = Append(@, ErrorEntry("media", "MediaError")),
                        !.outcome["media"] = "failed",
                        !.pc = "return"],
              d |-> result.dir]
        ELSE IF result.raised
        THEN [l |-> [called EXCEPT !.outcome["media"] = "raised", !.pc = "raised",
                                   !.exc = "MediaError"],
              d |-> result.dir]
        ELSE [l |-> [called EXCEPT
                        !.media_paths = result.paths,
                        !.errors = @ \o result.errors,
                        !.outcome["media"] =
                            IF result.skipped THEN "skipped" ELSE "fetched",
                        !.pc = "return"],
              d |-> result.dir]

\* lines 122-124
MediaCached(l, d) ==
    [l EXCEPT !.media_paths = IF d.media_dir THEN d.media ELSE {},
              !.outcome["media"] = "cached",
              !.pc = "return"]

\* line 100: the stage is left out when nothing is to be downloaded
MediaNone(l) == [l EXCEPT !.pc = "return"]

\* mutant: the media stage does not look at options.download
MediaStage_always(l, d, o, out) ==
    IF should_download_media(o, d)
    THEN MediaFetch(l, d, o, out)
    ELSE [l |-> MediaCached(l, d), d |-> d]

MediaStage(l, d, o, out) ==
    IF o.download /= "none"
    THEN IF should_download_media(o, d)
         THEN MediaFetch(l, d, o, out)
         ELSE [l |-> MediaCached(l, d), d |-> d]
    ELSE [l |-> MediaNone(l), d |-> d]

\* mutant: an error of the transcript stage does not fail the unit
Success_transcript_ignored(errors) ==
    \A k \in 1..Len(errors) : errors[k].prefix = "transcript"

\* mutant: an off-by-one comparison, true of every list
Success_ge(errors) == Len(errors) >= 0

\* line 126
Success(errors) == Len(errors) = 0

\* lines 127-136
FetchResult(l) ==
    [video_id |-> l.video_id, success |-> Success(l.errors),
     metadata_path |-> l.metadata_path, transcript_path |-> l.transcript_path,
     media_paths |-> l.media_paths, metadata |-> l.metadata,
     transcript |-> l.transcript, errors |-> l.errors]

(***************************************************************************)
(* TokenBucket (yt_fetch/utils/rate_limit.py).  A bucket is the record     *)
(* [capacity, tokens, elapsed] in units; elapsed is time.monotonic() minus *)
(* _last_refill in ticks, kept up to capacity (a longer wait refills no    *)
(* more than that).                                                        *)
(***************************************************************************)
Min(x, y) == IF x <= y THEN x ELSE y

\* __init__ with rate given in tokens per second and capacity in tokens
\* (None: the rate)
TokenBucket(capacity) ==
    [capacity |-> capacity * Scale, tokens |-> capacity * Scale, elapsed |-> 0]

\* time.monotonic() advances by one tick
Elapse(b) == [b EXCEPT !.elapsed = Min(b.capacity, @ + 1)]

\* mutant: _last_refill is not moved to now, so elapsed time is credited twice
refill_keeps_last(b) ==
    [b EXCEPT !.tokens = Min(b.capacity, b.tokens + b.elapsed)]

\* _refill, lines 54-59
refill(b) ==
    [b EXCEPT !.tokens = Min(b.capacity, b.tokens + b.elapsed), !.elapsed = 0]

\* mutant: the test of line 46 always passes
Enough_always(b, tokens) == TRUE

\* line 46
Enough(b, tokens) == b.tokens >= tokens

\* mutant: a granted call leaves the tokens in the bucket
Deduct_free(b, tokens) == b

\* line 47
Deduct(b, tokens) == [b EXCEPT !.tokens = @ - tokens]

\* line 51, in ticks
wait_time(b, tokens) == tokens - b.tokens

\* the token counts callers ask for: one (the default, the pipeline's) and
\* more than one
Requests == {1, 2}

(***************************************************************************)
(* State.                                                                  *)
(***************************************************************************)
VideoIds == {"a", "b"}

VARIABLES
    config,     \* UnitSpec: [download, ffmpeg_fallback] of the behaviour
    options,    \* the FetchOptions of the call(s) in progress
    disk,       \* the output directory: video id -> unit directory
    pv,         \* UnitSpec: the locals of the process_video call
    runs,       \* UnitSpec: process_video calls begun so far
    last,       \* UnitSpec: how the previous call ended
    bucket,     \* the TokenBucket
    lock,       \* BucketSpec: the thread holding bucket._lock, 0 when free
    age,        \* BucketSpec: ticks since the bucket was made, counted up to Scale
    th,         \* BucketSpec: thread -> its position in acquire
    dec,        \* BucketSpec: the acquire calls decided so far, summarised
    plain,      \* BucketSpec: every call so far was acquire(1, blocking=False)
    video_ids,  \* Spec: the input list of process_batch
    task,       \* Spec: position -> the asyncio task of _worker(video_ids[i])
    call,       \* Spec: position -> the locals of its process_video call
    thread,     \* Spec: position -> where its executor thread is in a stage
    semaphore,  \* Spec: the asyncio.Semaphore
    fail_fast_triggered,    \* Spec: the nonlocal flag of _async_process_batch
    batch,      \* Spec: the process_batch call
    rt,         \* RetrySpec: the call of a function wrapped by retry
    fb,         \* FetchBatchSpec: the fetch_batch call
    cli,        \* ExitSpec: the end of a CLI command
    fs          \* WriterSpec: one destination file and the writes to it

uvars == <<config, pv, runs, last>>

tvars == <<lock, age, th, dec, plain>>

bvars == <<video_ids, task, call, thread, semaphore, fail_fast_triggered, batch>>

rvars == <<rt>>

fvars == <<fb, cli, fs>>

vars == <<options, disk, uvars, bucket, tvars, bvars, rvars, fvars>>

\* the variables of UnitSpec while another specification runs
UnitUnused ==
    /\ config = [download |-> "none", ffmpeg_fallback |-> "error"]
    /\ pv = NoCall
    /\ runs = 0
    /\ last = [state |-> "none", noforce |-> FALSE, media_cached |-> FALSE,
               result |-> FetchResult(NoCall)]

Threads == 1..NThreads

\* at, gap: the age and the elapsed time the thread's _refill read
IdleThread ==
    [pc |-> "idle", tokens |-> 0, blocking |-> FALSE, sleep |-> 0, at |-> 0, gap |-> 0]

\* dec, kept while plain: n calls decided and granted of them returned True
\* (both counted up to MaxCapacity + 1); of the latest decision: ok, its
\* return value, at and gap, what its refill read (gap up to Scale);
\* prev_ok, the return value of the decision before
NoDecision ==
    [n |-> 0, granted |-> 0, ok |-> TRUE, at |-> 0, gap |-> 0, prev_ok |-> TRUE]

\* the variables of BucketSpec while another specification runs
BucketUnused ==
    /\ lock = 0
    /\ age = 0
    /\ th = [t \in Threads |-> IdleThread]
    /\ dec = NoDecision
    /\ plain = TRUE

\* rt before the wrapper is called.  delays are in half seconds; jitter is
\* in halves (0: none, 1: 50%); an error is [kind, attempt], kind
\* "retryable" when its type is in retryable_tuple and "fatal" when not;
\* the value returned by the call of attempt a is a + 1
NoRetry ==
    [max_retries |-> 0, base_delay |-> 1, multiplier |-> 1, jitter |-> 0,
     pc |-> "unused", attempt |-> 0, calls |-> 0, failures |-> 0,
     sleeps |-> <<>>, delay |-> 0, outcome |-> "none",
     last_exc |-> <<>>, exc |-> <<>>, value |-> 0]

\* the variables of RetrySpec while another specification runs
RetryUnused == rt = NoRetry

\* fb before fetch_batch is called: inputs is the list given, k the number
\* of inputs the loop of parse_many has consumed, seen and result its
\* locals
NoFetch ==
    [pc |-> "unused", inputs |-> <<>>, k |-> 0, seen |-> {}, result |-> <<>>]

\* the variables of FetchBatchSpec while another specification runs
FetchUnused == fb = NoFetch

\* cli before a command reaches sys.exit: total and failed are those of
\* the BatchResult, strict the --strict flag, code the exit status
NoExit == [pc |-> "unused", total |-> 0, failed |-> 0, strict |-> FALSE, code |-> 0]

\* the variables of ExitSpec while another specification runs
ExitUnused == cli = NoExit

\* a file: chunks of size pieces of the data of write number id are in it
NoFile == [exists |-> FALSE, id |-> 0, chunks |-> 0, size |-> 0]

Writers == 1..NWriters

IdleWriter == [pc |-> "idle", id |-> 0, kind |-> "", exc |-> ""]

\* fs while another specification runs
NoWriter ==
    [dest |-> NoFile, tmp |-> [t \in Writers |-> NoFile],
     w |-> [t \in Writers |-> IdleWriter], begun |-> 0]

WriterUnused == fs = NoWriter

\* BatchResult of no results
NoBatch == [total |-> 0, succeeded |-> 0, failed |-> 0, results |-> <<>>]

\* the variables of Spec while another specification runs
BatchUnused ==
    /\ video_ids = <<>>
    /\ task = <<>>
    /\ call = <<>>
    /\ thread = <<>>
    /\ semaphore = [value |-> 0, waiters |-> <<>>]
    /\ fail_fast_triggered = FALSE
    /\ batch = [pc |-> "unused", result |-> NoBatch, summary |-> <<>>,
                finished |-> <<>>]

(***************************************************************************)
(* UnitSpec: process_video is called up to MaxRuns times, one call after   *)
(* the other, on the directory of UnitId, each call with its own force     *)
(* flags.                                                                  *)
(***************************************************************************)
\* last.media_cached: the media directory held a file when the call ended
NoLast == [state |-> "none", noforce |-> FALSE, media_cached |-> FALSE,
           result |-> FetchResult(NoCall)]

UnitInit ==
    /\ config \in [download : DownloadModes, ffmpeg_fallback : FallbackModes]
    /\ options = FetchOptions(NoForce, config.download, config.ffmpeg_fallback)
    /\ \/ disk = [v \in VideoIds |-> EmptyDir]
       \/ /\ config = [download |-> "none", ffmpeg_fallback |-> "error"]
          /\ disk = [v \in VideoIds |-> IF v = UnitId THEN MalformedDir ELSE EmptyDir]
    /\ pv = NoCall
    /\ runs = 0
    /\ last = NoLast
    /\ bucket = TokenBucket(1)
    /\ BucketUnused
    /\ BatchUnused
    /\ RetryUnused
    /\ FetchUnused
    /\ ExitUnused
    /\ WriterUnused

\* the caller invokes process_video(UnitId, options) with no rate limiter
UBegin ==
    /\ pv.pc \in {"idle", "done", "raised"}
    /\ runs < MaxRuns
    /\ \E flags \in ForceFlags :
          options' = FetchOptions(flags, config.download, config.ffmpeg_fallback)
    /\ last' = IF pv.pc = "idle" THEN NoLast
               ELSE [state |-> pv.pc, noforce |-> ~AnyForce(options),
                     media_cached |-> disk[UnitId].media_dir /\ disk[UnitId].media /= {},
                     result |-> FetchResult(pv)]
    /\ runs' = runs + 1
    /\ pv' = NewCall(UnitId, runs + 1)
    /\ UNCHANGED <<config, disk, bucket, tvars, bvars, rvars, fvars>>

UMkdir ==
    /\ pv.pc = "mkdir"
    /\ \E ok \in BOOLEAN : pv' = MkdirStep(pv, ok)
    /\ UNCHANGED <<config, options, disk, runs, last, bucket, tvars, bvars, rvars, fvars>>

UMetadata ==
    /\ pv.pc = "metadata"
    /\ \E out \in MetadataOutcomes :
          LET r == MetadataStage(pv, disk[UnitId], options, out) IN
          /\ pv' = r.l
          /\ disk' = [disk EXCEPT ![UnitId] = r.d]
    /\ UNCHANGED <<config, options, runs, last, bucket, tvars, bvars, rvars, fvars>>

UTranscript ==
    /\ pv.pc = "transcript"
    /\ \E out \in TranscriptOutcomes :
          LET r == TranscriptStage(pv, disk[UnitId], options, out) IN
          /\ pv' = r.l
          /\ disk' = [disk EXCEPT ![UnitId] = r.d]
    /\ UNCHANGED <<config, options, runs, last, bucket, tvars, bvars, rvars, fvars>>

UMedia ==
    /\ pv.pc = "media"
    /\ \E out \in MediaOutcomes(options) :
          LET r == MediaStage(pv, disk[UnitId], options, out) IN
          /\ pv' = r.l
          /\ disk' = [disk EXCEPT ![UnitId] = r.d]
    /\ UNCHANGED <<config, options, runs, last, bucket, tvars, bvars, rvars, fvars>>

\* lines 126-136: the FetchResult is built and returned
UReturn ==
    /\ pv.pc = "return"
    /\ pv' = [pv EXCEPT !.pc = "done"]
    /\ UNCHANGED <<config, options, disk, runs, last, bucket, tvars, bvars, rvars, fvars>>

UnitNext == UBegin \/ UMkdir \/ UMetadata \/ UTranscript \/ UMedia \/ UReturn

UnitSpec == UnitInit /\ [][UnitNext]_vars

(***************************************************************************)
(* BucketSpec: NThreads threads call acquire on one bucket while the clock *)
(* advances.  A thread's pc follows acquire:                               *)
(*   "lock"   at `with self._lock`        (line 44)                        *)
(*   "refill" at self._refill()           (line 45)                        *)
(*   "check"  at the two tests            (lines 46, 49)                   *)
(*   "deduct" at self._tokens -= tokens   (line 47)                        *)
(*   "sleep"  in time.sleep(wait_time)    (line 52)                        *)
(***************************************************************************)
BucketInit ==
    /\ \E c \in 1..MaxCapacity : bucket = TokenBucket(c)
    /\ BucketUnused
    /\ options = FetchOptions(NoForce, "none", "error")
    /\ disk = [v \in VideoIds |-> EmptyDir]
    /\ UnitUnused
    /\ BatchUnused
    /\ RetryUnused
    /\ FetchUnused
    /\ ExitUnused
    /\ WriterUnused

\* thread t's call is decided: it returns ok (dec is kept while plain)
Decide(t, ok) ==
    IF plain
    THEN [n |-> Min(dec.n + 1, MaxCapacity + 1),
          granted |-> Min(dec.granted + (IF ok THEN 1 ELSE 0), MaxCapacity + 1),
          ok |-> ok, at |-> th[t].at, gap |-> th[t].gap, prev_ok |-> dec.ok]
    ELSE NoDecision

\* a thread calls acquire(tokens, blocking)
TCall(t) ==
    /\ th[t].pc = "idle"
    /\ \E n \in Requests, blocking \in BOOLEAN :
          /\ th' = [th EXCEPT ![t] = [IdleThread EXCEPT !.pc = "lock",
                                                       !.tokens = n * Scale,
                                                       !.blocking = blocking]]
          /\ plain' = (plain /\ n = 1 /\ ~blocking)
          /\ dec' = IF plain' THEN dec ELSE NoDecision
    /\ UNCHANGED <<options, disk, uvars, bvars, rvars, fvars, bucket, lock, age>>

\* mutant: acquire does not wait for the lock
LockFree_ignored == TRUE

\* line 44: the lock can be taken
LockFree == lock = 0

TLock(t) ==
    /\ th[t].pc = "lock"
    /\ LockFree
    /\ lock' = t
    /\ th' = [th EXCEPT ![t].pc = "refill"]
    /\ UNCHANGED <<options, disk, uvars, bvars, rvars, fvars, bucket, age, dec, plain>>

TRefill(t) ==
    /\ th[t].pc = "refill"
    /\ bucket' = refill(bucket)
    /\ th' = [th EXCEPT ![t].pc = "check", ![t].at = age,
                          ![t].gap = Min(bucket.elapsed, Scale)]
    /\ UNCHANGED <<options, disk, uvars, bvars, rvars, fvars, lock, age, dec, plain>>

\* lines 46-51: enough tokens, or return False, or compute wait_time and
\* leave the lock
TCheck(t) ==
    /\ th[t].pc = "check"
    /\ IF Enough(bucket, th[t].tokens)
       THEN /\ th' = [th EXCEPT ![t].pc = "deduct"]
            /\ UNCHANGED <<lock, dec>>
       ELSE /\ lock' = 0
            /\ IF ~th[t].blocking
               THEN /\ th' = [th EXCEPT ![t] = IdleThread]
                    /\ dec' = Decide(t, FALSE)
               ELSE /\ th' = [th EXCEPT ![t].pc = "sleep", ![t].at = 0, ![t].gap = 0,
                                        ![t].sleep = wait_time(bucket, th[t].tokens)]
                    /\ UNCHANGED dec
    /\ UNCHANGED <<options, disk, uvars, bvars, rvars, fvars, bucket, age, plain>>

\* lines 47-48: deduct, return True, leave the lock
TDeduct(t) ==
    /\ th[t].pc = "deduct"
    /\ bucket' = Deduct(bucket, th[t].tokens)
    /\ lock' = 0
    /\ th' = [th EXCEPT ![t] = IdleThread]
    /\ dec' = Decide(t, TRUE)
    /\ UNCHANGED <<options, disk, uvars, bvars, rvars, fvars, age, plain>>

\* line 52 returns, no sooner than wait_time after it began; the loop
\* starts again
TWake(t) ==
    /\ th[t].pc = "sleep"
    /\ th[t].sleep = 0
    /\ th' = [th EXCEPT ![t].pc = "lock"]
    /\ UNCHANGED <<options, disk, uvars, bvars, rvars, fvars, bucket, lock, age, dec, plain>>

\* one tick passes
Tick ==
    /\ age' = Min(age + 1, Scale)
    /\ bucket' = Elapse(bucket)
    /\ th' = [t \in Threads |->
                IF th[t].pc = "sleep" /\ th[t].sleep > 0
                THEN [th[t] EXCEPT !.sleep = @ - 1] ELSE th[t]]
    /\ UNCHANGED <<options, disk, uvars, bvars, rvars, fvars, lock, dec, plain>>

BucketNext ==
    \/ \E t \in Threads : TCall(t)
    \/ \E t \in Threads : TLock(t)
    \/ \E t \in Threads : TRefill(t)
    \/ \E t \in Threads : TCheck(t)
    \/ \E t \in Threads : TDeduct(t)
    \/ \E t \in Threads : TWake(t)
    \/ Tick

BucketSpec == BucketInit /\ [][BucketNext]_vars

\* the steps of thread t inside acquire
TStep(t) == TLock(t) \/ TRefill(t) \/ TCheck(t) \/ TDeduct(t) \/ TWake(t)

\* BucketSpec with time that advances and threads that are scheduled: a
\* thread inside acquire that can take a step takes one (a thread waiting
\* for the lock is only promised a step when the lock stays free)
BucketFairSpec ==
    /\ BucketSpec
    /\ WF_vars(Tick)
    /\ \A t \in Threads : WF_vars(TStep(t))

(***************************************************************************)
(* Spec: one process_batch call (pipeline.py lines 139-155, 186-222).      *)
(* The event loop runs one task step at a time; process_video runs in the  *)
(* executor's threads, one thread per dispatched task, and the threads     *)
(* interleave with each other and with the loop.  A task's st:             *)
(*   "created"   made by create_task, its first step not yet run           *)
(*   "waiting"   in the semaphore's queue                                  *)
(*   "woken"     handed the semaphore by a release, not yet resumed        *)
(*   "running"   awaiting run_in_executor (holds the semaphore)            *)
(*   "returned"  _worker returned ret: <<>> for None, else <<FetchResult>> *)
(*   "failed"    process_video's exception left _worker                    *)
(*   "cancelled" cancelled when asyncio.run closes the loop                *)
(* A thread's phase inside a stage of process_video:                       *)
(*   "test"    at the stage's should_fetch test                            *)
(*   "acquire" in rate_limiter.acquire(), asleep while sleep > 0           *)
(*   "call"    the token is taken, the collaborator call and the writes    *)
(*             are next                                                    *)
(*   "write"   the collaborator has returned and the stage's writer calls   *)
(*             are in progress; pend holds what the call and the writes do *)
(* acquired counts the acquire() calls of the thread that have returned.   *)
(***************************************************************************)
Units == 1..Len(video_ids)

NewTask == [st |-> "created", ret |-> <<>>]

IdleWorker == [phase |-> "test", sleep |-> 0, acquired |-> 0, pend |-> <<>>]

\* mutant: one slot for every unit
Semaphore_unbounded(o) == [value |-> o.workers + MaxUnits, waiters |-> <<>>]

\* line 190
Semaphore(o) == [value |-> o.workers, waiters |-> <<>>]

\* asyncio.Semaphore.locked()
Locked(s) == s.value = 0 \/ s.waiters /= <<>>

\* asyncio.Semaphore.release(): the slot goes to the first waiter if there
\* is one
Released(s) ==
    IF s.waiters = <<>>
    THEN [s EXCEPT !.value = @ + 1]
    ELSE [s EXCEPT !.waiters = Tail(@)]

WakeNext(tk, s) ==
    [j \in DOMAIN tk |->
        IF s.waiters /= <<>> /\ j = Head(s.waiters)
        THEN [tk[j] EXCEPT !.st = "woken"]
        ELSE tk[j]]

\* mutant: the flag is not looked at again once the semaphore is held
SkipAfterAcquire_never(flag) == FALSE

\* line 199
SkipAfterAcquire(flag) == flag

\* mutant: the flag is never set
TriggersFailFast_never(result, o) == FALSE

\* mutant: under fail_fast every returned unit sets the flag
TriggersFailFast_success(result, o) == o.fail_fast

\* mutant: any failed unit sets the flag
TriggersFailFast_always(result, o) == ~result.success

\* line 205
TriggersFailFast(result, o) == ~result.success /\ o.fail_fast

\* lines 199-204, run by task i as soon as it holds the semaphore (s is the
\* semaphore then): return None and release, or dispatch process_video
FromLine199(i, s) ==
    IF SkipAfterAcquire(fail_fast_triggered)
    THEN [task |-> WakeNext([task EXCEPT ![i] = [st |-> "returned", ret |-> <<>>]], s),
          call |-> call,
          semaphore |-> Released(s)]
    ELSE [task |-> [task EXCEPT ![i].st = "running"],
          call |-> [call EXCEPT ![i] = NewCall(video_ids[i], i)],
          semaphore |-> s]

\* mutant: the return values are taken last position first
RECURSIVE NotNone_reversed(_)
NotNone_reversed(completed) ==
    IF completed = <<>> THEN <<>>
    ELSE NotNone_reversed(Tail(completed)) \o Head(completed)

\* mutant: only the first worker's return value is kept
NotNone_first(completed) ==
    IF completed = <<>> THEN <<>> ELSE Head(completed)

\* line 212: completed holds <<>> for None and <<r>> for a result r
RECURSIVE NotNone(_)
NotNone(completed) ==
    IF completed = <<>> THEN <<>>
    ELSE Head(completed) \o NotNone(Tail(completed))

\* lines 214-215
RECURSIVE Count(_, _)
Count(results, success) ==
    IF results = <<>> THEN 0
    ELSE (IF Head(results).success = success THEN 1 ELSE 0)
         + Count(Tail(results), success)

\* mutant: total counts the inputs
Total_inputs(results) == Len(video_ids)

\* line 218
Total(results) == Len(results)

\* lines 212-222
BatchResult(completed) ==
    LET results == NotNone(completed) IN
    [total |-> Total(results),
     succeeded |-> Count(results, TRUE),
     failed |-> Count(results, FALSE),
     results |-> results]

AllStarted == \A j \in Units : task[j].st /= "created"

\* process_batch(video_ids, options) is called: lines 148-149 and 190-209.
\* rate_limit is 1: the bucket holds one token, so that the stages of a unit
\* and of concurrent units wait for each other
Init ==
    /\ video_ids \in UNION {[1..n -> VideoIds] : n \in 0..MaxUnits}
    /\ \E flags \in {NoForce, [NoForce EXCEPT !.force = TRUE]},
          download \in {"none", "video"},
          workers \in 1..MaxWorkers,
          fail_fast \in BOOLEAN :
          options = [FetchOptions(flags, download, "error") EXCEPT
                        !.rate_limit = 1,
                        !.workers = workers,
                        !.fail_fast = fail_fast]
    /\ disk = [v \in VideoIds |-> EmptyDir]
    /\ bucket = TokenBucket(options.rate_limit)
    /\ task = [i \in Units |-> NewTask]
    /\ call = [i \in Units |-> NoCall]
    /\ thread = [i \in Units |-> IdleWorker]
    /\ semaphore = Semaphore(options)
    /\ fail_fast_triggered = FALSE
    /\ batch = [pc |-> "gather", result |-> NoBatch, summary |-> <<>>,
                finished |-> <<>>]
    /\ UnitUnused
    /\ BucketUnused
    /\ RetryUnused
    /\ FetchUnused
    /\ ExitUnused
    /\ WriterUnused

\* the first step of task i, in the order of creation: lines 196-204
Start(i) ==
    /\ batch.pc = "gather"
    /\ task[i].st = "created"
    /\ \A j \in 1..(i - 1) : task[j].st /= "created"
    /\ IF fail_fast_triggered
       THEN /\ task' = [task EXCEPT ![i] = [st |-> "returned", ret |-> <<>>]]
            /\ UNCHANGED <<call, semaphore>>
       ELSE IF Locked(semaphore)
       THEN /\ semaphore' = [semaphore EXCEPT !.waiters = Append(@, i)]
            /\ task' = [task EXCEPT ![i].st = "waiting"]
            /\ UNCHANGED call
       ELSE LET r == FromLine199(i, [semaphore EXCEPT !.value = @ - 1]) IN
            /\ task' = r.task
            /\ call' = r.call
            /\ semaphore' = r.semaphore
    /\ UNCHANGED <<options, disk, uvars, rvars, fvars, bucket, tvars,
                   video_ids, thread, fail_fast_triggered, batch>>

\* a task that was handed the semaphore is resumed: lines 199-204
Wake(i) ==
    /\ batch.pc = "gather"
    /\ AllStarted
    /\ task[i].st = "woken"
    /\ LET r == FromLine199(i, semaphore) IN
       /\ task' = r.task
       /\ call' = r.call
       /\ semaphore' = r.semaphore
    /\ UNCHANGED <<options, disk, uvars, rvars, fvars, bucket, tvars,
                   video_ids, thread, fail_fast_triggered, batch>>

\* the thread of unit i: lines 41-43
Mkdir(i) ==
    /\ call[i].pc = "mkdir"
    /\ \E ok \in BOOLEAN : call' = [call EXCEPT ![i] = MkdirStep(call[i], ok)]
    /\ UNCHANGED <<options, disk, uvars, rvars, fvars, bucket, tvars,
                   video_ids, task, thread, semaphore, fail_fast_triggered, batch>>

\* whether the stage at l.pc must fetch: lines 54-58, 76-80, 102-107
MustFetch(l, d, o) ==
    CASE l.pc = "metadata" -> should_fetch_metadata(o, d)
      [] l.pc = "transcript" -> should_fetch_transcript(o, d)
      [] OTHER -> o.download /= "none" /\ should_download_media(o, d)

\* the else branch of the stage at l.pc: lines 70-72, 95-97, 122-124
Cached(l, d, o) ==
    CASE l.pc = "metadata" -> MetadataCached(l)
      [] l.pc = "transcript" -> TranscriptCached(l)
      [] OTHER -> IF o.download /= "none" THEN MediaCached(l, d) ELSE MediaNone(l)

\* mutant: the stage goes to its collaborator without a token
EntryPhase_call(rate_limiter) == "call"

\* lines 62-63, 84-85, 111-112: `if rate_limiter: rate_limiter.acquire()`
EntryPhase(rate_limiter) == IF rate_limiter THEN "acquire" ELSE "call"

\* the thread of unit i evaluates the stage's test; process_batch passes
\* its TokenBucket as rate_limiter (line 203)
Test(i) ==
    /\ call[i].pc \in Stages
    /\ thread[i].phase = "test"
    /\ IF MustFetch(call[i], disk[video_ids[i]], options)
       THEN /\ thread' = [thread EXCEPT ![i].phase = EntryPhase(TRUE)]
            /\ UNCHANGED call
       ELSE /\ call' = [call EXCEPT ![i] = Cached(call[i], disk[video_ids[i]], options)]
            /\ UNCHANGED thread
    /\ UNCHANGED <<options, disk, uvars, rvars, fvars, bucket, tvars,
                   video_ids, task, semaphore, fail_fast_triggered, batch>>

\* rate_limiter.acquire() at lines 63, 85, 112: one pass of the loop of
\* acquire under the bucket's lock, for one token
Acquire(i) ==
    /\ call[i].pc \in Stages
    /\ thread[i].phase = "acquire"
    /\ thread[i].sleep = 0
    /\ LET b == refill(bucket) IN
       IF Enough(b, Scale)
       THEN /\ bucket' = Deduct(b, Scale)
            /\ thread' = [thread EXCEPT ![i].phase = "call",
                                         ![i].acquired = @ + 1]
       ELSE /\ bucket' = b
            /\ thread' = [thread EXCEPT ![i].sleep = wait_time(b, Scale)]
    /\ UNCHANGED <<options, disk, uvars, rvars, fvars, tvars,
                   video_ids, task, call, semaphore, fail_fast_triggered, batch>>

\* what the stage at l.pc can do once its token is taken
StageOutcomes(l, o) ==
    CASE l.pc = "metadata" -> MetadataOutcomes
      [] l.pc = "transcript" -> TranscriptOutcomes
      [] OTHER -> MediaOutcomes(o)

\* the try block of the stage at l.pc under outcome out: lines 61-69,
\* 83-94, 110-121
StageFetch(l, d, o, out) ==
    CASE l.pc = "metadata" -> MetadataFetch(l, d, out)
      [] l.pc = "transcript" -> TranscriptFetch(l, d, out)
      [] OTHER -> MediaFetch(l, d, o, out)

\* the files of the unit directory that the writer calls of the stage at
\* l.pc replace under outcome out (lines 65, 87-90); a fault after k writes
\* happens in write k + 1
WrittenFiles(l, out) ==
    CASE l.pc = "metadata" ->
           IF out = "ok" THEN {"metadata.json"} ELSE {}
      [] l.pc = "transcript" ->
           IF out.kind = "TranscriptError" THEN {}
           ELSE LET n == IF out.kind = "ok" THEN 4 ELSE out.writes
                IN  {<<"transcript.json", "transcript.txt",
                       "transcript.vtt", "transcript.srt">>[k] : k \in 1..n}
      [] OTHER -> {}

\* the collaborator call of the stage: it raises, and the try block is
\* left at once, or it returns, and the writer calls begin
Fetch(i) ==
    /\ call[i].pc \in Stages
    /\ thread[i].phase = "call"
    /\ LET l == call[i]
           d == disk[video_ids[i]]
       IN  \E out \in StageOutcomes(l, options) :
              IF WrittenFiles(l, out) = {}
              THEN LET r == StageFetch(l, d, options, out) IN
                   /\ call' = [call EXCEPT ![i] = r.l]
                   /\ disk' = [disk EXCEPT ![video_ids[i]] = r.d]
                   /\ thread' = [thread EXCEPT ![i].phase = "test"]
              ELSE /\ thread' = [thread EXCEPT ![i].phase = "write",
                                               ![i].pend = <<out>>]
                   /\ UNCHANGED <<call, disk>>
    /\ UNCHANGED <<options, uvars, rvars, fvars, bucket, tvars,
                   video_ids, task, semaphore, fail_fast_triggered, batch>>

\* the writer calls of the stage end: each file written was replaced
\* atomically (os.replace, writer.py line 98)
Write(i) ==
    /\ call[i].pc \in Stages
    /\ thread[i].phase = "write"
    /\ LET r == StageFetch(call[i], disk[video_ids[i]], options, thread[i].pend[1]) IN
       /\ call' = [call EXCEPT ![i] = r.l]
       /\ disk' = [disk EXCEPT ![video_ids[i]] = r.d]
    /\ thread' = [thread EXCEPT ![i].phase = "test", ![i].pend = <<>>]
    /\ UNCHANGED <<options, uvars, rvars, fvars, bucket, tvars,
                   video_ids, task, semaphore, fail_fast_triggered, batch>>

\* lines 126-136
Return(i) ==
    /\ call[i].pc = "return"
    /\ call' = [call EXCEPT ![i].pc = "done"]
    /\ UNCHANGED <<options, disk, uvars, rvars, fvars, bucket, tvars,
                   video_ids, task, thread, semaphore, fail_fast_triggered, batch>>

\* one tick passes
Clock ==
    /\ bucket' = Elapse(bucket)
    /\ thread' = [i \in Units |->
                    IF thread[i].sleep > 0
                    THEN [thread[i] EXCEPT !.sleep = @ - 1] ELSE thread[i]]
    /\ UNCHANGED <<options, disk, uvars, rvars, fvars, tvars,
                   video_ids, task, call, semaphore, fail_fast_triggered, batch>>

\* task i is resumed when its thread has left process_video: lines 205-207
\* and the end of `async with`, or the exception leaves _worker
Resume(i) ==
    /\ batch.pc = "gather"
    /\ AllStarted
    /\ task[i].st = "running"
    /\ call[i].pc \in {"done", "raised"}
    /\ IF call[i].pc = "done"
       THEN LET result == FetchResult(call[i]) IN
            /\ fail_fast_triggered' =
                  (fail_fast_triggered \/ TriggersFailFast(result, options))
            /\ task' = WakeNext([task EXCEPT ![i] = [st |-> "returned",
                                                     ret |-> <<result>>]],
                                semaphore)
       ELSE /\ task' = WakeNext([task EXCEPT ![i].st = "failed"], semaphore)
            /\ UNCHANGED fail_fast_triggered
    /\ semaphore' = Released(semaphore)
    \* ghost: the order in which the workers end
    /\ batch' = [batch EXCEPT !.finished = Append(@, i)]
    /\ UNCHANGED <<options, disk, uvars, rvars, fvars, bucket, tvars,
                   video_ids, call, thread>>

\* line 210 returns and lines 212-222 build the BatchResult
Gather ==
    /\ batch.pc = "gather"
    /\ \A j \in Units : task[j].st = "returned"
    /\ batch' = [batch EXCEPT !.pc = "summary",
                              !.result = BatchResult([j \in Units |-> task[j].ret])]
    /\ UNCHANGED <<options, disk, uvars, rvars, fvars, bucket, tvars,
                   video_ids, task, call, thread, semaphore, fail_fast_triggered>>

\* line 210 raises the exception of a failed task; asyncio.run cancels the
\* tasks that are left and process_batch raises
GatherRaises ==
    /\ batch.pc = "gather"
    /\ AllStarted
    /\ \E j \in Units : task[j].st = "failed"
    /\ batch' = [batch EXCEPT !.pc = "raised"]
    /\ task' = [j \in Units |->
                  IF task[j].st \in {"waiting", "woken", "running"}
                  THEN [task[j] EXCEPT !.st = "cancelled"] ELSE task[j]]
    /\ UNCHANGED <<options, disk, uvars, rvars, fvars, bucket, tvars,
                   video_ids, call, thread, semaphore, fail_fast_triggered>>

\* mutant: process_batch returns without writing summary.json
write_summary_skipped(b, ok) == [b EXCEPT !.pc = "done"]

\* writer.py lines 79-85, called at pipeline.py line 152: summary.json is
\* replaced by the dump of the BatchResult (ok), or the write raises;
\* b.summary is the sequence of the dumps written so far
write_summary(b, ok) ==
    IF ok
    THEN [b EXCEPT !.pc = "done", !.summary = Append(@, b.result)]
    ELSE [b EXCEPT !.pc = "raised"]

\* lines 151-155: write_summary, print_summary, return
Summary ==
    /\ batch.pc = "summary"
    /\ \E ok \in BOOLEAN : batch' = write_summary(batch, ok)
    /\ UNCHANGED <<options, disk, uvars, rvars, fvars, bucket, tvars,
                   video_ids, task, call, thread, semaphore, fail_fast_triggered>>

Next ==
    \/ \E i \in Units : Start(i)
    \/ \E i \in Units : Wake(i)
    \/ \E i \in Units : Mkdir(i)
    \/ \E i \in Units : Test(i)
    \/ \E i \in Units : Acquire(i)
    \/ \E i \in Units : Fetch(i)
    \/ \E i \in Units : Write(i)
    \/ \E i \in Units : Return(i)
    \/ \E i \in Units : Resume(i)
    \/ Clock
    \/ Gather
    \/ GatherRaises
    \/ Summary

Spec == Init /\ [][Next]_vars

\* the steps of the task and the thread of position i
UnitStep(i) ==
    /\ i \in Units
    /\ \/ Start(i) \/ Wake(i) \/ Resume(i)
       \/ Mkdir(i) \/ Test(i) \/ Acquire(i) \/ Fetch(i) \/ Write(i) \/ Return(i)

\* Spec with time that advances, an event loop that runs every task that
\* is ready, executor threads that are scheduled and collaborator calls
\* that return or raise (Fetch is one step)
FairSpec ==
    /\ Spec
    /\ WF_vars(Clock)
    /\ \A i \in 1..MaxUnits : WF_vars(UnitStep(i))
    /\ WF_vars(Gather \/ GatherRaises \/ Summary)

(***************************************************************************)
(* FetchBatchSpec: fetch_batch (yt_fetch/__init__.py lines 38-57) parses   *)
(* its inputs with parse_many and calls process_batch with the ids.        *)
(* An input is what urlparse and the code see of the stripped text:        *)
(*   host   parsed.hostname, "" when the text is not a URL                 *)
(*   route  the path or the path prefix the code tests, "" for a bare text *)
(*   cand   the bare text, or the candidate the route yields (v=..., the   *)
(*          first path segment)                                            *)
(* A candidate in VideoIds stands for eleven characters of [A-Za-z0-9_-].  *)
(***************************************************************************)
MaxInputs == 2

Bare(text) == [host |-> "", route |-> "", cand |-> text]

Url(host, route, cand) == [host |-> host, route |-> route, cand |-> cand]

\* a bare id, an invalid text, a blank text, and URLs of video "a" and of
\* another site
RawInputs ==
    {Bare("a"), Bare("b"), Bare("!"), Bare(""),
     Url("www.youtube.com", "/watch", "a"),
     Url("youtu.be", "/", "a"),
     Url("vimeo.com", "/watch", "b")}

\* id_parser.py lines 14-16
is_valid_video_id(candidate) == candidate \in VideoIds

\* line 38: (parsed.hostname or "").lower().removeprefix("www.")
Host(raw) ==
    CASE raw.host = "www.youtube.com" -> "youtube.com"
      [] OTHER -> raw.host

\* the None that parse_video_id returns for an input it cannot parse
NoVideoId == "None"

\* parse_video_id, lines 19-62
parse_video_id(raw) ==
    IF raw.host = "" /\ raw.cand = "" THEN NoVideoId
    ELSE IF raw.host = "" THEN
        IF is_valid_video_id(raw.cand) THEN raw.cand ELSE NoVideoId
    ELSE IF Host(raw) \in {"youtube.com", "m.youtube.com"} THEN
        IF raw.route \in {"/watch", "/shorts/", "/embed/", "/v/"}
              /\ is_valid_video_id(raw.cand)
        THEN raw.cand ELSE NoVideoId
    ELSE IF Host(raw) = "youtu.be" THEN
        IF is_valid_video_id(raw.cand) THEN raw.cand ELSE NoVideoId
    ELSE NoVideoId

\* mutant: parse_many does not look at seen
Unseen_always(video_id, seen) == video_id /= NoVideoId

\* line 70
Unseen(video_id, seen) == video_id /= NoVideoId /\ video_id \notin seen

FetchBatchInit ==
    /\ \E inputs \in UNION {[1..n -> RawInputs] : n \in 0..MaxInputs} :
          fb = [NoFetch EXCEPT !.pc = "parse", !.inputs = inputs]
    /\ \E workers \in {1, MaxWorkers} :
          options = [FetchOptions(NoForce, "none", "error") EXCEPT
                        !.rate_limit = 1, !.workers = workers]
    /\ disk = [v \in VideoIds |-> EmptyDir]
    /\ bucket = TokenBucket(options.rate_limit)
    /\ UnitUnused
    /\ BucketUnused
    /\ BatchUnused
    /\ RetryUnused
    /\ ExitUnused
    /\ WriterUnused

\* one pass of the loop of parse_many, id_parser.py lines 68-73
ParseNext ==
    /\ fb.pc = "parse"
    /\ fb.k < Len(fb.inputs)
    /\ LET video_id == parse_video_id(fb.inputs[fb.k + 1]) IN
       fb' = IF Unseen(video_id, fb.seen)
             THEN [fb EXCEPT !.k = @ + 1,
                             !.seen = @ \cup {video_id},
                             !.result = Append(@, video_id)]
             ELSE [fb EXCEPT !.k = @ + 1]
    /\ UNCHANGED <<options, disk, uvars, bucket, tvars, bvars, rvars, cli, fs>>

\* parse_many returns and fetch_batch calls process_batch(parsed, options):
\* __init__.py line 57, pipeline.py lines 148-149 and 190-209
Dispatch ==
    /\ fb.pc = "parse"
    /\ fb.k = Len(fb.inputs)
    /\ fb' = [fb EXCEPT !.pc = "dispatched"]
    /\ video_ids' = fb.result
    /\ bucket' = TokenBucket(options.rate_limit)
    /\ task' = [i \in 1..Len(fb.result) |-> NewTask]
    /\ call' = [i \in 1..Len(fb.result) |-> NoCall]
    /\ thread' = [i \in 1..Len(fb.result) |-> IdleWorker]
    /\ semaphore' = Semaphore(options)
    /\ fail_fast_triggered' = FALSE
    /\ batch' = [pc |-> "gather", result |-> NoBatch, summary |-> <<>>,
                finished |-> <<>>]
    /\ UNCHANGED <<options, disk, uvars, tvars, rvars, cli, fs>>

FetchBatchNext == ParseNext \/ Dispatch \/ Next

FetchBatchSpec == FetchBatchInit /\ [][FetchBatchNext]_vars

(***************************************************************************)
(* RetrySpec: one call of a function wrapped by retry (yt_fetch/utils/     *)
(* retry.py lines 44-69).  What the wrapped function does at each call is  *)
(* the environment's choice: it returns ("ok"), raises an error whose type *)
(* is in retryable_tuple ("retryable") or raises another error ("fatal").  *)
(* rt.pc: "call" at line 48, "sleep" at line 68, "returned", "raised".     *)
(***************************************************************************)
RECURSIVE Pow(_, _)
Pow(x, n) == IF n = 0 THEN 1 ELSE x * Pow(x, n - 1)

Max(x, y) == IF x >= y THEN x ELSE y

\* mutant: the exponent is one too large
compute_delay_next(attempt, base_delay, multiplier, jitter) ==
    LET delay == 2 * base_delay * Pow(multiplier, attempt + 1)
        jitter_range == (delay * jitter) \div 2
    IN  {Max(0, delay + x) : x \in (0 - jitter_range)..jitter_range}

\* lines 86-89: the delays _compute_delay can return, random.uniform
\* picking any point of the range
compute_delay(attempt, base_delay, multiplier, jitter) ==
    LET delay == 2 * base_delay * Pow(multiplier, attempt)
        jitter_range == (delay * jitter) \div 2
    IN  {Max(0, delay + x) : x \in (0 - jitter_range)..jitter_range}

\* mutant: every error is caught
IsRetryable_any(kind) == TRUE

\* line 49: the except clause catches the error
IsRetryable(kind) == kind = "retryable"

\* mutant: the last attempt sleeps too
Exhausted_late(attempt, max_retries) == attempt > max_retries

\* line 51
Exhausted(attempt, max_retries) == attempt >= max_retries

RetryInit ==
    /\ \E max_retries \in 0..MaxRetries, base_delay \in {1, 2},
          multiplier \in {1, 2}, jitter \in {0, 1} :
          rt = [NoRetry EXCEPT !.max_retries = max_retries,
                               !.base_delay = base_delay,
                               !.multiplier = multiplier,
                               !.jitter = jitter,
                               !.pc = "call"]
    /\ options = FetchOptions(NoForce, "none", "error")
    /\ disk = [v \in VideoIds |-> EmptyDir]
    /\ bucket = TokenBucket(1)
    /\ UnitUnused
    /\ BucketUnused
    /\ BatchUnused
    /\ FetchUnused
    /\ ExitUnused
    /\ WriterUnused

\* lines 47-67: one attempt
RCall ==
    /\ rt.pc = "call"
    /\ \E out \in {"ok", "retryable", "fatal"},
          delay \in compute_delay(rt.attempt, rt.base_delay, rt.multiplier, rt.jitter) :
          LET err == <<[kind |-> out, attempt |-> rt.attempt]>>
              called == [rt EXCEPT !.calls = @ + 1, !.outcome = out]
              caught == [called EXCEPT !.last_exc = err, !.failures = @ + 1]
          IN  rt' = IF out = "ok"
                    THEN [called EXCEPT !.pc = "returned", !.value = rt.attempt + 1]
                    ELSE IF ~IsRetryable(out)
                    THEN [called EXCEPT !.pc = "raised", !.exc = err]
                    ELSE IF Exhausted(rt.attempt, rt.max_retries)
                    THEN [caught EXCEPT !.pc = "raised", !.exc = err]
                    ELSE [caught EXCEPT !.pc = "sleep", !.delay = delay]
    /\ UNCHANGED <<options, disk, uvars, bucket, tvars, bvars, fvars>>

\* line 68, then the next round of the loop or line 69
RSleep ==
    /\ rt.pc = "sleep"
    /\ LET slept == [rt EXCEPT !.sleeps = Append(@, rt.delay),
                               !.delay = 0,
                               !.attempt = @ + 1]
       IN  rt' = IF slept.attempt <= rt.max_retries
                 THEN [slept EXCEPT !.pc = "call"]
                 ELSE [slept EXCEPT !.pc = "raised", !.exc = rt.last_exc]
    /\ UNCHANGED <<options, disk, uvars, bucket, tvars, bvars, fvars>>

RetryNext == RCall \/ RSleep

RetrySpec == RetryInit /\ [][RetryNext]_vars

(***************************************************************************)
(* ExitSpec: a CLI command ends with sys.exit(_exit_code(result.total,     *)
(* result.failed, strict)) (yt_fetch/cli.py lines 103-113 and 139).        *)
(***************************************************************************)
MaxTotal == 9

EXIT_OK == 0

EXIT_PARTIAL == 2

EXIT_ALL_FAILED == 3

\* mutant: a partial failure is reported whatever --strict is
exit_code_strict(total, failed, strict) ==
    IF total = 0 THEN EXIT_OK
    ELSE IF failed = 0 THEN EXIT_OK
    ELSE IF failed = total THEN EXIT_ALL_FAILED
    ELSE EXIT_PARTIAL

\* _exit_code, lines 103-113
exit_code(total, failed, strict) ==
    IF total = 0 THEN EXIT_OK
    ELSE IF failed = 0 THEN EXIT_OK
    ELSE IF failed = total THEN EXIT_ALL_FAILED
    ELSE IF strict THEN EXIT_PARTIAL
    ELSE EXIT_OK

ExitInit ==
    /\ \E total \in 0..MaxTotal, strict \in BOOLEAN :
          \E failed \in 0..total :
             cli = [NoExit EXCEPT !.pc = "call", !.total = total,
                                  !.failed = failed, !.strict = strict]
    /\ options = FetchOptions(NoForce, "none", "error")
    /\ disk = [v \in VideoIds |-> EmptyDir]
    /\ bucket = TokenBucket(1)
    /\ UnitUnused
    /\ BucketUnused
    /\ BatchUnused
    /\ RetryUnused
    /\ FetchUnused
    /\ WriterUnused

\* line 139: sys.exit(_exit_code(result.total, result.failed, strict))
Exit ==
    /\ cli.pc = "call"
    /\ cli' = [cli EXCEPT !.pc = "exited",
                          !.code = exit_code(cli.total, cli.failed, cli.strict)]
    /\ UNCHANGED <<options, disk, uvars, bucket, tvars, bvars, rvars, fb, fs>>

ExitNext == Exit

ExitSpec == ExitInit /\ [][ExitNext]_vars

(***************************************************************************)
(* WriterSpec: _atomic_write_json and _atomic_write_text (writer.py lines  *)
(* 88-116) called on one destination path by NWriters threads, MaxWrites   *)
(* times in all.  fs.dest is the destination file, fs.tmp[t] the temporary *)
(* file of thread t's call, fs.w[t] the call of thread t with pc:          *)
(*   "mkdir"   at dest.parent.mkdir          (lines 90, 106)               *)
(*   "mkstemp" at tempfile.mkstemp           (lines 91-93, 107-109)        *)
(*   "write"   inside the with block         (lines 95-97, 111-112)        *)
(*   "replace" at os.replace                 (lines 98, 113)               *)
(*   "except"  at os.unlink in the handler   (lines 100, 115)              *)
(*   "done"    returned, "raised" the exception left the function          *)
(* Every file operation either works or raises OSError; a write call can   *)
(* also raise UnicodeEncodeError (text that utf-8 cannot encode).          *)
(***************************************************************************)
WriteKinds == {"json", "text"}

\* the write calls inside the with block: json.dump and the newline (lines
\* 96-97), or the one f.write(content) (line 112)
Pieces(kind) == IF kind = "json" THEN 2 ELSE 1

Complete(f) == f.exists /\ f.chunks = f.size

\* mutant: the data is written into the destination itself
WriteTarget_dest(f, t) == "dest"

\* lines 91-95, 107-111: the file the with block writes to is the one
\* mkstemp made
WriteTarget(f, t) == "tmp"

\* one write call of the with block adds a piece to its file
WritePiece(f, t) ==
    IF WriteTarget(f, t) = "tmp"
    THEN [f EXCEPT !.tmp[t].chunks = @ + 1]
    ELSE [f EXCEPT !.dest = [exists |-> TRUE, id |-> f.w[t].id,
                              chunks |-> f.tmp[t].chunks + 1,
                              size |-> f.tmp[t].size],
                   !.tmp[t].chunks = @ + 1]

\* lines 98, 113: os.replace(tmp_path, dest)
os_replace(f, t) == [f EXCEPT !.dest = f.tmp[t], !.tmp[t] = NoFile]

\* lines 100, 115: os.unlink(tmp_path)
os_unlink(f, t) == [f EXCEPT !.tmp[t] = NoFile]

\* the exception exc is raised inside the try block
Handler(f, t, exc) == [f EXCEPT !.w[t].pc = "except", !.w[t].exc = exc]

WriterInit ==
    /\ \E old \in BOOLEAN :
          fs = [NoWriter EXCEPT
                   !.dest = IF old
                            THEN [exists |-> TRUE, id |-> 0, chunks |-> 1, size |-> 1]
                            ELSE NoFile]
    /\ options = FetchOptions(NoForce, "none", "error")
    /\ disk = [v \in VideoIds |-> EmptyDir]
    /\ bucket = TokenBucket(1)
    /\ UnitUnused
    /\ BucketUnused
    /\ BatchUnused
    /\ RetryUnused
    /\ FetchUnused
    /\ ExitUnused

WriterFrame ==
    UNCHANGED <<options, disk, uvars, bucket, tvars, bvars, rvars, fb, cli>>

\* thread t calls _atomic_write_json or _atomic_write_text with new data
WCall(t) ==
    /\ fs.w[t].pc \in {"idle", "done", "raised"}
    /\ fs.begun < MaxWrites
    /\ \E kind \in WriteKinds :
          fs' = [fs EXCEPT !.begun = @ + 1,
                           !.w[t] = [pc |-> "mkdir", id |-> fs.begun + 1,
                                     kind |-> kind, exc |-> ""]]
    /\ WriterFrame

\* lines 90, 106
WMkdir(t) ==
    /\ fs.w[t].pc = "mkdir"
    /\ \/ fs' = [fs EXCEPT !.w[t].pc = "mkstemp"]
       \/ fs' = [fs EXCEPT !.w[t].pc = "raised", !.w[t].exc = "OSError"]
    /\ WriterFrame

\* lines 91-93, 107-109: a new empty file with a name of its own, or the
\* error, raised before the try block is entered
WMkstemp(t) ==
    /\ fs.w[t].pc = "mkstemp"
    /\ \/ fs' = [fs EXCEPT !.w[t].pc = "write",
                            !.tmp[t] = [exists |-> TRUE, id |-> fs.w[t].id,
                                        chunks |-> 0,
                                        size |-> Pieces(fs.w[t].kind)]]
       \/ fs' = [fs EXCEPT !.w[t].pc = "raised", !.w[t].exc = "OSError"]
    /\ WriterFrame

\* lines 95-97, 111-112: one write call; the with block closes the file
\* after the last one and when a write raises
WWrite(t) ==
    /\ fs.w[t].pc = "write"
    /\ \/ LET f == WritePiece(fs, t) IN
          fs' = IF f.tmp[t].chunks = f.tmp[t].size
                THEN [f EXCEPT !.w[t].pc = "replace"] ELSE f
       \/ \E exc \in {"OSError", "UnicodeEncodeError"} :
             fs' = Handler(fs, t, exc)
    /\ WriterFrame

\* lines 98, 113
WReplace(t) ==
    /\ fs.w[t].pc = "replace"
    /\ \/ fs' = [os_replace(fs, t) EXCEPT !.w[t].pc = "done"]
       \/ fs' = Handler(fs, t, "OSError")
    /\ WriterFrame

\* lines 99-101, 114-116: except BaseException: os.unlink(tmp_path); raise
WExcept(t) ==
    /\ fs.w[t].pc = "except"
    /\ fs' = [os_unlink(fs, t) EXCEPT !.w[t].pc = "raised"]
    /\ WriterFrame

WriterNext ==
    \/ \E t \in Writers : WCall(t)
    \/ \E t \in Writers : WMkdir(t)
    \/ \E t \in Writers : WMkstemp(t)
    \/ \E t \in Writers : WWrite(t)
    \/ \E t \in Writers : WReplace(t)
    \/ \E t \in Writers : WExcept(t)

WriterSpec == WriterInit /\ [][WriterNext]_vars

(***************************************************************************)
(* Claims about process_video, checked under UnitSpec.                     *)
(***************************************************************************)
Returned == pv.pc = "done"

Failed(stage) == pv.outcome[stage] = "failed"

\* C2: whenever process_video returns after its metadata stage failed
\* (get_metadata raised MetadataError), the FetchResult has success = false,
\* whatever the transcript and media stages did.
C2_MetadataFailureFails ==
    (Returned /\ Failed("metadata")) => FetchResult(pv).success = FALSE

\* a returned run whose metadata stage failed while its transcript was fetched
C2_Witness ==
    Returned /\ Failed("metadata") /\ pv.outcome["transcript"] = "fetched"

\* C3: whenever process_video returns with its metadata stage not failed and
\* its transcript or media stage failed, success is true and errors is not
\* empty.
C3_SuccessIffMetadataOk ==
    (Returned /\ ~Failed("metadata") /\ (Failed("transcript") \/ Failed("media")))
        => (FetchResult(pv).success = TRUE /\ FetchResult(pv).errors /= <<>>)

\* the state every two-run statement is about: a second call has returned,
\* the first one returned too, and neither had a force flag (the remaining
\* options are those of the behaviour, so the two calls' options are equal)
SecondIdenticalRun ==
    /\ Returned
    /\ last.state = "done"
    /\ last.noforce
    /\ ~AnyForce(options)

NoCallsAndSamePaths ==
    /\ \A s \in Stages : pv.calls[s] = 0
    /\ FetchResult(pv).metadata_path = last.result.metadata_path
    /\ FetchResult(pv).transcript_path = last.result.transcript_path
    /\ FetchResult(pv).media_paths = last.result.media_paths

C5_StageStep ==
    LET d == disk[UnitId] IN
    /\ pv.pc = "metadata" /\ pv'.pc /= "metadata" =>
          IF options.force \/ options.force_metadata \/ d.metadata_json = 0
          THEN pv'.calls["metadata"] = 1
          ELSE /\ pv'.calls["metadata"] = 0
               /\ pv'.metadata_path = Path(UnitId, "metadata.json")
    /\ pv.pc = "transcript" /\ pv'.pc /= "transcript" =>
          IF options.force \/ options.force_transcript \/ d.transcript_json = 0
          THEN pv'.calls["transcript"] = 1
          ELSE /\ pv'.calls["transcript"] = 0
               /\ pv'.transcript_path = Path(UnitId, "transcript.json")
    /\ pv.pc = "media" /\ pv'.pc /= "media" /\ options.download /= "none" =>
          IF options.force \/ options.force_media \/ ~d.media_dir \/ d.media = {}
          THEN pv'.calls["media"] = 1
          ELSE /\ pv'.calls["media"] = 0
               /\ pv'.media_paths = d.media
    /\ pv'.pc = "done" /\ options'.force =>
          /\ pv'.calls["metadata"] = 1
          /\ pv'.calls["transcript"] = 1
          /\ pv'.calls["media"] = IF options'.download /= "none" THEN 1 ELSE 0

C5_CalledIffMustFetch == [][C5_StageStep]_vars

\* a run with only force_transcript set that found both files cached: it
\* called get_transcript once and get_metadata not at all
C5_Witness ==
    /\ Returned
    /\ options.force_transcript /\ ~options.force /\ ~options.force_metadata
    /\ last.state = "done" /\ last.result.success
    /\ pv.calls["transcript"] = 1
    /\ pv.calls["metadata"] = 0

\* C15: an exception of a collaborator that its stage catches never leaves
\* process_video: no MetadataError, TranscriptError or exception of
\* download_media is what process_video raised, and a stage that failed has
\* its entry in errors, in the FetchResult too once the call returns.
C15_FailuresRecorded ==
    /\ pv.exc \notin {"MetadataError", "TranscriptError", "MediaError"}
    /\ \A s \in Stages :
          Failed(s) => \E k \in 1..Len(pv.errors) : pv.errors[k].prefix = s
    /\ Returned =>
          \A s \in Stages :
             Failed(s) =>
                \E k \in 1..Len(FetchResult(pv).errors) :
                   FetchResult(pv).errors[k].prefix = s

\* a call that returned although all three collaborators raised
C15_Witness ==
    /\ Returned
    /\ \A s \in Stages : Failed(s)
    /\ Len(FetchResult(pv).errors) = 3

\* C16: in a returned FetchResult every entry of errors starts with the
\* name of a stage that failed, and every failed stage has exactly one
\* entry.
C16_OneEntryPerFailedStage ==
    Returned =>
        LET errors == FetchResult(pv).errors IN
        /\ \A k \in 1..Len(errors) :
              errors[k].prefix \in Stages /\ Failed(errors[k].prefix)
        /\ \A s \in Stages :
              Failed(s) =>
                 Cardinality({k \in 1..Len(errors) : errors[k].prefix = s}) = 1

\* C17: a returned FetchResult of a run that skipped the metadata stage as
\* cached carries the stored metadata, and likewise the transcript.
C17_CacheSkipCarriesArtifact ==
    Returned =>
        /\ pv.outcome["metadata"] = "cached" =>
              /\ FetchResult(pv).metadata /= 0
              /\ FetchResult(pv).metadata = disk[UnitId].metadata_json
        /\ pv.outcome["transcript"] = "cached" =>
              /\ FetchResult(pv).transcript /= 0
              /\ FetchResult(pv).transcript = disk[UnitId].transcript_json

\* C18: a run without force flags never skips a stage as cached over a
\* file that is malformed: it calls the collaborator instead.
C18_MalformedIsCacheMiss ==
    (pv.pc /= "idle" /\ ~AnyForce(options)) =>
        /\ pv.outcome["metadata"] = "cached" =>
              disk[UnitId].metadata_json /= Malformed
        /\ pv.outcome["transcript"] = "cached" =>
              disk[UnitId].transcript_json /= Malformed

\* a process_video call is between its first and its last step
RunInProgress == pv.pc \notin {"idle", "done", "raised"}

C19_Step ==
    (RunInProgress /\ ~options.force) =>
        LET d == disk[UnitId]
            e == disk'[UnitId]
        IN  /\ (~options.force_metadata /\ d.metadata_json /= 0) =>
                  /\ pv'.calls["metadata"] = pv.calls["metadata"]
                  /\ e.metadata_json = d.metadata_json
            /\ (~options.force_transcript /\ d.transcript_json /= 0) =>
                  /\ pv'.calls["transcript"] = pv.calls["transcript"]
                  /\ e.transcript_json = d.transcript_json
                  /\ e.transcript_txt = d.transcript_txt
                  /\ e.transcript_vtt = d.transcript_vtt
                  /\ e.transcript_srt = d.transcript_srt
            /\ (~options.force_media /\ d.media_dir /\ d.media /= {}) =>
                  /\ pv'.calls["media"] = pv.calls["media"]
                  /\ e.media_dir = d.media_dir
                  /\ e.media = d.media

\* C19: in a run without the global force flag, no step calls the
\* collaborator of a stage whose artifact is on disk and whose own force
\* flag is clear, and no step changes that artifact's files, whatever the
\* other stages' force flags are.
C19_OwnFlagOnly == [][C19_Step]_vars

\* a second run with only force_media set: the media was downloaded again,
\* metadata and transcript were not fetched and their files are those of
\* the first run
C19_Witness ==
    /\ Returned
    /\ pv.stamp = 2
    /\ options.force_media
    /\ ~options.force /\ ~options.force_metadata /\ ~options.force_transcript
    /\ pv.calls = [s \in Stages |-> IF s = "media" THEN 1 ELSE 0]
    /\ disk[UnitId].metadata_json = 1
    /\ disk[UnitId].transcript_json = 1

C20_Step ==
    /\ pv'.calls["metadata"] > pv.calls["metadata"] =>
          /\ pv.outcome["transcript"] = "none"
          /\ pv.outcome["media"] = "none"
    /\ pv'.calls["transcript"] > pv.calls["transcript"] =>
          /\ pv.outcome["metadata"] /= "none"
          /\ pv.outcome["media"] = "none"
    /\ pv'.calls["media"] > pv.calls["media"] =>
          /\ pv.outcome["metadata"] /= "none"
          /\ pv.outcome["transcript"] /= "none"
          /\ options.download /= "none"

C20_State ==
    /\ pv.outcome["transcript"] /= "none" => pv.outcome["metadata"] /= "none"
    /\ pv.outcome["media"] /= "none" => pv.outcome["transcript"] /= "none"
    /\ Returned =>
          /\ pv.outcome["metadata"] /= "none"
          /\ pv.outcome["transcript"] /= "none"
          /\ options.download /= "none" => pv.outcome["media"] /= "none"
    /\ options.download = "none" =>
          /\ pv.calls["media"] = 0
          /\ pv.outcome["media"] = "none"
          /\ pv.media_paths = {}

\* C20: get_metadata is called before the other stages have done anything,
\* get_transcript only after the metadata stage has ended and download_media
\* only after both; a run that returns has run the metadata and transcript
\* stages, and the media stage when download is not "none", whatever
\* failed; with download "none" download_media is never called and
\* media_paths is empty.
C20_StageOrder == [](C20_State) /\ [][C20_Step]_vars

\* metadata and transcript both failed and the media was still downloaded
C20_Witness ==
    /\ Returned
    /\ Failed("metadata")
    /\ Failed("transcript")
    /\ pv.outcome["media"] = "fetched"
    /\ pv.media_paths /= {}

\* C24: each stage calls its collaborator through retry with
\* options.retries: a stage recorded as failed with its collaborator's
\* error (MetadataError, TranscriptError: the errors under which the
\* collaborators report a failed request) has been attempted
\* options.retries + 1 times.
C24_StagesRetry ==
    \A s \in {"metadata", "transcript"} :
        (pv.pc \in {"done", "raised"} /\ pv.outcome[s] = "failed") =>
            pv.calls[s] = options.retries + 1

\* the FetchResult r has an error entry of the stage
HasError(r, stage) == \E k \in 1..Len(r.errors) : r.errors[k].prefix = stage

\* the stage of the returned call ended in exactly one of the three ways,
\* and r reports its path unless it failed
OneOutcome(r, stage, path, file) ==
    /\ pv.outcome[stage] \in {"fetched", "cached", "failed"}
    /\ (path = None) <=> Failed(stage)
    /\ (path = None) <=> HasError(r, stage)
    /\ pv.outcome[stage] \in {"fetched", "cached"} =>
          path = Path(pv.video_id, file)
    /\ Cardinality({k \in 1..Len(r.errors) : r.errors[k].prefix = stage}) <= 1

\* C36: in the FetchResult of every process_video call that returns, the
\* metadata stage and the transcript stage each ended as fetched, cached
\* or failed; metadata_path (transcript_path) is None exactly when the
\* stage failed, which is exactly when errors holds an entry of the stage,
\* and is the path of the stage's file otherwise.
C36_PathIffNotFailed ==
    Returned =>
        LET r == FetchResult(pv) IN
        /\ OneOutcome(r, "metadata", r.metadata_path, "metadata.json")
        /\ OneOutcome(r, "transcript", r.transcript_path, "transcript.json")

\* a second run that found metadata.json and transcript.json on disk
\* skipped both stages and reports both paths
C36_Witness ==
    /\ Returned
    /\ pv.outcome["metadata"] = "cached"
    /\ pv.outcome["transcript"] = "cached"
    /\ FetchResult(pv).transcript_path /= None
    /\ FetchResult(pv).errors = <<>>

\* C37: when the previous process_video run ended with a failed stage (its
\* collaborator raised, with or without force flags and with or without
\* an older artifact on disk), a run with no force flag does not skip
\* that stage as cached: it calls the stage's collaborator again.
C37_FailedStageRefetched ==
    (last.state = "done" /\ ~AnyForce(options) /\ pv.pc /= "idle") =>
        \A s \in Stages :
            HasError(last.result, s) => pv.outcome[s] /= "cached"

\* C38: in every state reached by process_video runs, also by a run that a
\* write error stopped between the four transcript writes, a unit
\* directory that holds transcript.json holds transcript.txt,
\* transcript.vtt and transcript.srt too.
C38_FourTranscriptFiles ==
    \A v \in VideoIds :
        disk[v].transcript_json /= 0 =>
            /\ disk[v].transcript_txt /= 0
            /\ disk[v].transcript_vtt /= 0
            /\ disk[v].transcript_srt /= 0

(***************************************************************************)
(* Claims about process_batch, checked under Spec.                         *)
(***************************************************************************)
\* _async_process_batch has returned its BatchResult
BatchReturned == batch.pc \in {"summary", "done"}

\* the positions for which process_video was called
Dispatched == {i \in Units : call[i].pc /= "idle"}

\* the positions whose thread is inside process_video
InProcessVideo == {i \in Units : call[i].pc \notin {"idle", "done", "raised"}}

\* C1: the BatchResult that process_batch returns has total = len(results)
\* and succeeded + failed = total, succeeded being the number of results
\* with success true and failed the number with success false.
C1_BatchCounts ==
    BatchReturned =>
        LET r == batch.result IN
        /\ r.total = Len(r.results)
        /\ r.succeeded + r.failed = r.total
        /\ r.succeeded = Cardinality({k \in 1..Len(r.results) : r.results[k].success})
        /\ r.failed = Cardinality({k \in 1..Len(r.results) : ~r.results[k].success})

\* process_batch returned a batch of one succeeded and one failed unit
C1_Witness ==
    /\ batch.pc = "done"
    /\ batch.result.succeeded = 1
    /\ batch.result.failed = 1
    /\ batch.result.total = 2

\* C6: with fail_fast off the flag is never set and no worker returns None;
\* when the batch returns, process_video has returned for every position of
\* the input and total is the length of the input.
C6_AllAttempted ==
    ~options.fail_fast =>
        /\ ~fail_fast_triggered
        /\ \A i \in Units : task[i].st = "returned" => task[i].ret /= <<>>
        /\ BatchReturned =>
              /\ \A i \in Units : call[i].pc = "done"
              /\ batch.result.total = Len(video_ids)

\* one worker, fail_fast off: the first unit failed, the second was
\* processed after it and succeeded
C6_Witness ==
    /\ ~options.fail_fast
    /\ options.workers = 1
    /\ batch.pc = "done"
    /\ Len(video_ids) = 2
    /\ ~batch.result.results[1].success
    /\ batch.result.results[2].success
    /\ batch.result.total = 2

\* the results of the calls of positions 1..n that returned, in input order
RECURSIVE ResultsOf(_)
ResultsOf(n) ==
    IF n = 0 THEN <<>>
    ELSE ResultsOf(n - 1)
         \o (IF call[n].pc = "done" THEN <<FetchResult(call[n])>> ELSE <<>>)

C7_Returned ==
    (options.fail_fast /\ BatchReturned) =>
        /\ \A i \in Dispatched : call[i].pc = "done"
        /\ batch.result.results = ResultsOf(Len(video_ids))
        /\ batch.result.total = Cardinality(Dispatched)
        /\ \A i \in Units \ Dispatched : task[i].ret = <<>>

C7_Step ==
    \A i \in Units :
        (fail_fast_triggered /\ call[i].pc = "idle") => call'[i].pc = "idle"

\* C7: under fail_fast, once the flag is set process_video is called for no
\* position it was not yet called for; and when the batch returns, every
\* call of process_video that was made has returned and results holds
\* exactly the results of these calls, so that a skipped position is
\* neither in results nor in total.
C7_FailFastCut == [](C7_Returned) /\ [][C7_Step]_vars

\* one worker under fail_fast: the first unit failed and the second was
\* skipped
C7_Witness ==
    /\ options.fail_fast
    /\ batch.pc = "done"
    /\ fail_fast_triggered
    /\ Len(video_ids) = 2
    /\ call[1].pc = "done"
    /\ call[2].pc = "idle"
    /\ task[2].st = "returned"
    /\ batch.result.total = 1

\* C8: at most options.workers threads are inside process_video.
C8_WorkersBound == Cardinality(InProcessVideo) <= options.workers

\* one worker: the first unit is inside a stage of process_video while the
\* second waits for the semaphore
C8_Witness ==
    /\ options.workers = 1
    /\ Len(video_ids) = 2
    /\ call[1].pc \in Stages
    /\ task[2].st = "waiting"

\* C14: a process_video call that raised leaves its worker with a failed
\* result (no exception leaves _worker), and the batch is not aborted by
\* it.
C14_RaiseBecomesFailedResult ==
    /\ \A i \in Units : task[i].st /= "failed"
    /\ \A i \in Units :
          (call[i].pc = "raised" /\ task[i].st = "returned") =>
             (task[i].ret /= <<>> /\ ~task[i].ret[1].success)
    /\ (\E i \in Units : call[i].pc = "raised") => batch.pc /= "raised"

\* the positions whose process_video call returned a result with
\* success false
FailedUnits ==
    {i \in Units : call[i].pc = "done" /\ ~FetchResult(call[i]).success}

\* the positions whose process_video call returned with one error entry,
\* of the transcript stage
TranscriptOnlyFailures ==
    {i \in Units : /\ call[i].pc = "done"
                   /\ Len(call[i].errors) = 1
                   /\ call[i].errors[1].prefix = "transcript"}

\* the batch returned, and no position after i was processed
CutAfter(i) ==
    /\ batch.result.total < Len(video_ids)
    /\ batch.result.failed >= 1
    /\ \A j \in Units : j > i => call[j].pc = "idle"

\* C21: with fail_fast set and one worker, when the batch returns and a
\* unit that is not the last of the input has failed, total is less than
\* the number of inputs, failed is at least 1, and process_video was called
\* for no unit after the first failing one.
C21_FailFastOneWorker ==
    (options.fail_fast /\ options.workers = 1 /\ BatchReturned) =>
        \A i \in FailedUnits : i < Len(video_ids) => CutAfter(i)

\* one worker under fail_fast: two inputs, the first failed, one result
C21_Witness ==
    /\ options.fail_fast
    /\ options.workers = 1
    /\ batch.pc = "done"
    /\ Len(video_ids) = 2
    /\ 1 \in FailedUnits
    /\ batch.result.total = 1
    /\ batch.result.failed = 1

CallsMade(i) ==
    call[i].calls["metadata"] + call[i].calls["transcript"]
        + call[i].calls["media"]

\* the token of the thread of position i whose stage is not yet finished
TokenInHand(i) == IF thread[i].phase \in {"call", "write"} THEN 1 ELSE 0

C23_State ==
    \A i \in Units :
        /\ thread[i].acquired = CallsMade(i) + TokenInHand(i)
        /\ \A s \in Stages :
              call[i].outcome[s] \in {"cached", "skipped"} => call[i].calls[s] = 0

C23_Step ==
    \A i \in Units :
        \* a token is taken by a step of acquire that deducts one token
        \* from the shared bucket, and is followed by the call
        /\ thread'[i].acquired /= thread[i].acquired =>
              /\ thread[i].phase = "acquire"
              /\ thread'[i].phase = "call"
              /\ thread'[i].acquired = thread[i].acquired + 1
              /\ bucket'.tokens = refill(bucket).tokens - Scale
              /\ call'[i] = call[i]
        \* the collaborator is called by the thread that holds a token,
        \* and the call uses the token up
        /\ CallsMade(i)' /= CallsMade(i) =>
              /\ thread[i].phase \in {"call", "write"}
              /\ thread'[i].phase = "test"
              /\ CallsMade(i)' = CallsMade(i) + 1
              /\ call'[i].calls[call[i].pc] = call[i].calls[call[i].pc] + 1
              /\ bucket' = bucket
        \* a stage that is left without a call has taken no token
        /\ (call[i].pc \in Stages /\ call'[i].pc /= call[i].pc
               /\ CallsMade(i)' = CallsMade(i)) =>
              /\ thread[i].phase = "test"
              /\ thread'[i] = thread[i]
              /\ bucket' = bucket

\* C23: in a batch every collaborator call is made by a thread that took
\* one token from the shared bucket for it, in an acquire that returned
\* before the call; each token taken serves exactly one call, and a stage
\* skipped as cached takes no token.
C23_TokenBeforeCall == [](C23_State) /\ [][C23_Step]_vars

\* two workers: the first unit's thread has called get_metadata with its
\* token and holds the token for get_transcript, the second unit's thread
\* sleeps in acquire
C23_Witness ==
    /\ Len(video_ids) = 2
    /\ call[1].pc = "transcript"
    /\ call[1].calls["metadata"] = 1
    /\ thread[1].phase = "call"
    /\ thread[1].acquired = 2
    /\ call[2].pc \in Stages
    /\ thread[2].phase = "acquire"
    /\ thread[2].sleep > 0
    /\ thread[2].acquired = 0

\* every unit has ended: its process_video call returned and its worker
\* returned the result (Completed), or its worker returned None without a
\* call (Skipped)
AllUnitsEnded ==
    \A i \in Units :
        /\ task[i].st = "returned"
        /\ \/ call[i].pc = "done" /\ task[i].ret = <<FetchResult(call[i])>>
           \/ call[i].pc = "idle" /\ task[i].ret = <<>>

\* a fault that is not a collaborator's: the unit directory cannot be made
\* (line 43), a write of the transcript stage fails (get_transcript itself
\* raises TranscriptError only), or write_summary fails (line 152)
OutsideFault ==
    \/ \E i \in Units :
          /\ call[i].pc = "raised"
          /\ call[i].outcome["metadata"] = "none" \/ call[i].outcome["transcript"] = "raised"
    \/ batch.pc = "raised" /\ \A i \in Units : task[i].st = "returned"

\* C26: when every collaborator call returns or raises, process_batch
\* terminates: every unit ends Completed or Skipped, every slot of the
\* semaphore is released again and a BatchResult is returned.
C26_BatchTerminates ==
    \/ <>OutsideFault
    \/ <>(/\ batch.pc = "done"
          /\ AllUnitsEnded
          /\ semaphore.value = options.workers
          /\ semaphore.waiters = <<>>)

C28_State ==
    /\ Len(batch.summary) <= 1
    /\ batch.pc = "done" => batch.summary = <<batch.result>>
    /\ batch.pc /= "done" => batch.summary = <<>>

C28_Step ==
    /\ batch'.summary /= batch.summary =>
          /\ batch.summary = <<>>
          /\ batch'.summary = <<batch.result>>
          /\ batch'.result = batch.result
          /\ batch'.pc = "done"
          /\ \A i \in Units : task[i].st = "returned"
          /\ \A i \in Dispatched : call[i].pc = "done"
          /\ batch.result.results = ResultsOf(Len(video_ids))
    /\ batch.pc = "done" => batch' = batch

\* C28: a process_batch call that returns has written summary.json exactly
\* once, after the process_video call of every dispatched unit returned,
\* and what it wrote is the BatchResult it returns: its totals and the
\* results of the dispatched units.
C28_SummaryOnce == [](C28_State) /\ [][C28_Step]_vars

\* a batch cut short by fail-fast has returned: summary.json holds one
\* failed result for two inputs
C28_Witness ==
    /\ batch.pc = "done"
    /\ fail_fast_triggered
    /\ Len(video_ids) = 2
    /\ Len(batch.summary) = 1
    /\ batch.summary[1].total = 1
    /\ batch.summary[1].failed = 1
    /\ Len(batch.summary[1].results) = 1

\* the paths on which the thread of position i has a write in progress
WritesInProgress(i) ==
    IF thread[i].phase = "write"
    THEN {Path(video_ids[i], f) : f \in WrittenFiles(call[i], thread[i].pend[1])}
    ELSE {}

\* C29: at no moment do two workers of one process_batch run have a write
\* in progress on the same path, whatever the list of ids is.
C29_NoSharedPath ==
    \A i, j \in Units :
        i /= j => WritesInProgress(i) \cap WritesInProgress(j) = {}

\* where position i of the input is: Pending until its worker has decided,
\* Dispatched while process_video runs or its return waits for the event
\* loop, Completed when the worker returned the result, Skipped when it
\* returned None; Aborted when the exception of a call has ended the batch
\* or cancelled the task
UnitState(i) ==
    CASE task[i].st \in {"created", "waiting", "woken"} -> "Pending"
      [] task[i].st = "running" -> "Dispatched"
      [] task[i].st = "returned" /\ task[i].ret /= <<>> -> "Completed"
      [] task[i].st = "returned" /\ task[i].ret = <<>> -> "Skipped"
      [] OTHER -> "Aborted"

C32_State ==
    /\ \A i \in Units :
          /\ UnitState(i) \in {"Pending", "Skipped"} => call[i].pc = "idle"
          /\ UnitState(i) = "Dispatched" => call[i].pc /= "idle"
          /\ UnitState(i) = "Completed" =>
                (call[i].pc = "done" /\ task[i].ret = <<FetchResult(call[i])>>)
    /\ BatchReturned =>
          /\ \A i \in Units : UnitState(i) \in {"Completed", "Skipped"}
          /\ Len(batch.result.results) =
                Cardinality({i \in Units : UnitState(i) = "Completed"})
          /\ batch.result.results = ResultsOf(Len(video_ids))

C32_Step ==
    \A i \in Units :
        /\ UnitState(i)' /= UnitState(i) =>
              \/ UnitState(i) = "Pending" /\ UnitState(i)' \in {"Dispatched", "Skipped"}
              \/ UnitState(i) = "Dispatched" /\ UnitState(i)' = "Completed"
              \/ UnitState(i)' = "Aborted"
        \* process_video is called once: a call that has begun is never
        \* begun again
        /\ call[i].pc /= "idle" =>
              /\ call'[i].pc \notin {"idle"}
              /\ call[i].pc /= "mkdir" => call'[i].pc /= "mkdir"
              /\ call'[i].video_id = call[i].video_id
              /\ call'[i].stamp = call[i].stamp
        /\ UnitState(i) \in {"Completed", "Skipped"} =>
              (task'[i] = task[i] /\ call'[i] = call[i])

\* C32: each position of the input goes Pending -> Dispatched -> Completed
\* or Pending -> Skipped and never back; process_video is called at most
\* once for a position, and the results of a returned batch are exactly
\* the results of the calls made, one entry each.
C32_UnitStateMachine == [](C32_State) /\ [][C32_Step]_vars

\* two workers under fail_fast: both units were dispatched, the first
\* failed, and both are Completed with one entry each
C32_Witness ==
    /\ options.fail_fast
    /\ options.workers = 2
    /\ batch.pc = "done"
    /\ Len(video_ids) = 2
    /\ UnitState(1) = "Completed"
    /\ UnitState(2) = "Completed"
    /\ ~batch.result.results[1].success
    /\ Len(batch.result.results) = 2

C33_State ==
    fail_fast_triggered => (options.fail_fast /\ FailedUnits /= {})

C33_Step ==
    /\ fail_fast_triggered => fail_fast_triggered'
    \* the flag is set by the worker whose call just returned a failure
    /\ (~fail_fast_triggered /\ fail_fast_triggered') =>
          \E i \in Units :
              /\ task[i].st = "running"
              /\ task'[i].st = "returned"
              /\ task'[i].ret /= <<>>
              /\ ~task'[i].ret[1].success
    \* the overrun: the positions dispatched after the flag is set
    /\ fail_fast_triggered => Dispatched' = Dispatched

\* C33: the fail-fast flag is set only under options.fail_fast and by a
\* unit that returned success = false, it is never cleared, and no
\* position is dispatched to process_video once it is set, with one
\* worker and with several.
C33_NoOverrun == [](C33_State) /\ [][C33_Step]_vars

\* two workers under fail_fast: the first unit failed and set the flag
\* while the second, dispatched before, is still inside process_video
C33_Witness ==
    /\ options.fail_fast
    /\ options.workers = 2
    /\ fail_fast_triggered
    /\ Len(video_ids) = 2
    /\ task[1].st = "returned"
    /\ 1 \in FailedUnits
    /\ 2 \in InProcessVideo

\* the positions whose worker returned a result, in input order
RECURSIVE CompletedUnits(_)
CompletedUnits(n) ==
    IF n = 0 THEN <<>>
    ELSE CompletedUnits(n - 1)
         \o (IF task[n].st = "returned" /\ task[n].ret /= <<>>
             THEN <<n>> ELSE <<>>)

\* C34: the results of a returned batch are the results of the non-skipped
\* positions in the order of the input list, also when the workers ended
\* in another order.
C34_ResultsInInputOrder ==
    BatchReturned =>
        LET done == CompletedUnits(Len(video_ids)) IN
        /\ Len(batch.result.results) = Len(done)
        /\ \A k \in 1..Len(done) :
              /\ batch.result.results[k] = task[done[k]].ret[1]
              /\ batch.result.results[k].video_id = video_ids[done[k]]
        /\ \A j, k \in 1..Len(done) : j < k => done[j] < done[k]

\* two workers on two different units: the worker of the second unit ended
\* first, and the returned results begin with the first unit
C34_Witness ==
    /\ batch.pc = "done"
    /\ options.workers = 2
    /\ Len(video_ids) = 2
    /\ video_ids[1] /= video_ids[2]
    /\ batch.finished = <<2, 1>>
    /\ Len(batch.result.results) = 2
    /\ batch.result.results[1].video_id = video_ids[1]

\* the tokens, in units, the bucket holds once _refill has credited the
\* time elapsed since the last refill
Available(b) == Min(b.capacity, b.tokens + b.elapsed)

\* the tokens granted so far to the threads of positions 1..n
RECURSIVE GrantedTo(_)
GrantedTo(n) == IF n = 0 THEN 0 ELSE GrantedTo(n - 1) + thread[n].acquired

Granted == GrantedTo(Len(video_ids))

\* the collaborator calls begun so far by the threads of positions 1..n
RECURSIVE CallsBegun(_)
CallsBegun(n) ==
    IF n = 0 THEN 0 ELSE CallsBegun(n - 1) + CallsMade(n) + TokenInHand(n)

C35_State ==
    /\ bucket.capacity = options.rate_limit * Scale
    /\ bucket.tokens >= 0
    /\ Available(bucket) <= bucket.capacity
    \* every collaborator call of the batch has its own grant of the one
    \* bucket
    /\ CallsBegun(Len(video_ids)) = Granted

C35_Step ==
    /\ bucket'.capacity = bucket.capacity
    /\ Granted' \in {Granted, Granted + 1}
    \* a grant takes one token out of the bucket, and no time passes
    /\ Granted' = Granted + 1 =>
          Available(bucket') = Available(bucket) - Scale
    \* the bucket gains one unit per tick, up to its capacity, and nothing
    \* otherwise
    /\ Granted' = Granted =>
          \/ Available(bucket') = Available(bucket)
          \/ /\ bucket' = Elapse(bucket)
             /\ Available(bucket') = Available(bucket) + 1

\* C35: the workers of a batch draw every collaborator call from the one
\* bucket, which holds at most capacity = rate_limit tokens, loses one
\* token per call and gains rate_limit tokens per second; hence over an
\* interval of length T the calls number at most the tokens held at its
\* start plus the tokens gained, capacity + rate_limit * T.
C35_SharedRate == [](C35_State) /\ [][C35_Step]_vars

\* two workers: the first unit's thread took the bucket's only token at
\* once, the second unit's thread got its token after waiting for the
\* refill, and the bucket is empty again
C35_Witness ==
    /\ options.workers = 2
    /\ Len(video_ids) = 2
    /\ thread[1].acquired = 1
    /\ thread[2].acquired = 1
    /\ thread[1].phase = "call"
    /\ thread[2].phase = "call"
    /\ Available(bucket) = 0

(***************************************************************************)
(* Claims about TokenBucket, checked under BucketSpec.                     *)
(***************************************************************************)
Quiescent == \A t \in Threads : th[t].pc = "idle"

\* the capacity in whole tokens
CapacityTokens == bucket.capacity \div Scale

\* C9: under every interleaving of acquire calls the token count stays within
\* 0..capacity, and when only acquire(1, blocking=False) calls were made and
\* no time has passed since the bucket was full, exactly min(n, c) of the n
\* calls returned True.
C9_NoDoubleSpend ==
    /\ 0 <= bucket.tokens
    /\ bucket.tokens <= bucket.capacity
    /\ (age = 0 /\ plain /\ Quiescent) => dec.granted = Min(dec.n, CapacityTokens)

\* more calls than tokens were made at time 0 against a two-token bucket
C9_Witness ==
    /\ age = 0 /\ plain /\ Quiescent
    /\ CapacityTokens = 2
    /\ dec.n = 3
    /\ dec.granted = 2

\* C10: on a fresh bucket of capacity c used only through
\* acquire(1, blocking=False), the first c calls return True, a later call
\* made before 1/rate seconds have passed since the bucket was made returns
\* False, and a call made 1/rate seconds or more after a call that returned
\* False returns True.
C10_BurstThenRefill ==
    (plain /\ dec.n >= 1) =>
        /\ dec.n <= CapacityTokens => dec.ok
        /\ (dec.n > CapacityTokens /\ dec.at < Scale) => ~dec.ok
        /\ (dec.n >= 2 /\ ~dec.prev_ok /\ dec.gap >= Scale) => dec.ok

\* capacity 2: after the two granted calls and a refused one, a call made
\* exactly 1/rate seconds after the refusal is granted
C10_Witness ==
    /\ plain
    /\ CapacityTokens = 2
    /\ dec.n = 3
    /\ ~dec.prev_ok
    /\ dec.gap = Scale
    /\ dec.ok

\* thread t is at the test of line 46 in a non-blocking call, and the
\* bucket holds fewer tokens than it asks for
Short(t) ==
    th[t].pc = "check" /\ ~th[t].blocking /\ bucket.tokens < th[t].tokens

C27_State ==
    /\ bucket.tokens >= 0
    /\ \A t \in Threads : ~th[t].blocking => (th[t].pc /= "sleep" /\ th[t].sleep = 0)

C27_Step ==
    \A t \in Threads :
        \* the call returns False at once: nothing is deducted, nobody sleeps
        /\ (Short(t) /\ th'[t] /= th[t]) =>
              /\ th'[t] = IdleThread
              /\ bucket' = bucket
              /\ lock' = 0
              /\ plain => (dec'.ok = FALSE /\ dec'.granted = dec.granted)
        \* what the call did before is the refill
        /\ (th[t].pc = "refill" /\ th'[t] /= th[t]) =>
              /\ th'[t].pc = "check"
              /\ bucket'.tokens = Min(bucket.capacity, bucket.tokens + bucket.elapsed)
              /\ bucket'.elapsed = 0
        /\ th[t].pc = "check" => bucket'.tokens = bucket.tokens
        \* a request that fits in the tokens that are left is granted
        /\ (th[t].pc = "check" /\ th[t].tokens <= bucket.tokens
               /\ th'[t] /= th[t]) =>
              (th'[t].pc = "deduct" /\ bucket' = bucket)
        /\ (th[t].pc = "deduct" /\ th'[t] /= th[t]) =>
              /\ th'[t] = IdleThread
              /\ bucket'.tokens = bucket.tokens - th[t].tokens

\* C27: a non-blocking acquire that finds fewer tokens than it asks for
\* returns False at once, without sleeping and without deducting; the
\* refill is its only change of the bucket, so a request that fits in the
\* tokens that are left is granted.
C27_RefusalKeepsTokens == [](C27_State) /\ [][C27_Step]_vars

\* a two-token bucket with one token left: an acquire(2, blocking=False) is
\* about to be refused while an acquire(1) waits for the lock
C27_Witness ==
    /\ CapacityTokens = 2
    /\ bucket.tokens = Scale
    /\ \E t, u \in Threads :
          /\ t /= u
          /\ Short(t)
          /\ th[t].tokens = 2 * Scale
          /\ th[u].pc = "lock"
          /\ th[u].tokens = Scale

\* the threads other than t make no acquire call
OthersIdle(t) == \A u \in Threads \ {t} : th[u].pc = "idle"

\* C25: when the other threads stop calling acquire, a blocking acquire of
\* thread t returns (True: a blocking call has no other return), whatever
\* the number of tokens it asks for and the capacity of the bucket.
C25_BlockingAcquireReturns ==
    \A t \in Threads :
        (<>[]OthersIdle(t)) =>
            []((th[t].pc /= "idle" /\ th[t].blocking) => <>(th[t].pc = "idle"))

(***************************************************************************)
(* Claims about retry, checked under RetrySpec.                            *)
(***************************************************************************)
\* C11: when the wrapper returns after k retryable failures, the function
\* was called k + 1 times, the value of the last call is returned and sleep
\* was called k times; with jitter 0 the i-th delay is
\* base_delay * multiplier^(i-1).
C11_RetriesThenSucceeds ==
    rt.pc = "returned" =>
        LET k == rt.failures IN
        /\ k <= rt.max_retries
        /\ rt.calls = k + 1
        /\ rt.value = rt.calls
        /\ Len(rt.sleeps) = k
        /\ rt.jitter = 0 =>
              \A i \in 1..k :
                 rt.sleeps[i] = 2 * rt.base_delay * Pow(rt.multiplier, i - 1)

\* two retryable failures, then success, doubling delays without jitter
C11_Witness ==
    /\ rt.pc = "returned"
    /\ rt.failures = 2
    /\ rt.jitter = 0
    /\ rt.multiplier = 2
    /\ rt.sleeps = <<2 * rt.base_delay, 4 * rt.base_delay>>

\* C12: an error that is not retryable ends the call at once: the wrapper
\* has raised that same error, the function is not called again and no
\* sleep follows the error (one call and no sleep at all when the error
\* comes at the first attempt).
C12_FatalNotRetried ==
    rt.outcome = "fatal" =>
        /\ rt.pc = "raised"
        /\ rt.exc = <<[kind |-> "fatal", attempt |-> rt.attempt]>>
        /\ rt.calls = rt.attempt + 1
        /\ Len(rt.sleeps) = rt.attempt
        /\ rt.attempt = rt.failures

\* a fatal error at the second attempt, after one retry
C12_Witness ==
    /\ rt.pc = "raised"
    /\ rt.outcome = "fatal"
    /\ rt.attempt = 1
    /\ rt.calls = 2

\* C13: when the wrapper raises a retryable error, every one of the
\* max_retries + 1 attempts failed: the function was called max_retries + 1
\* times, sleep max_retries times, and the error is that of the last
\* attempt.
C13_Exhausted ==
    (rt.pc = "raised" /\ rt.outcome = "retryable") =>
        /\ rt.calls = rt.max_retries + 1
        /\ rt.failures = rt.calls
        /\ Len(rt.sleeps) = rt.max_retries
        /\ rt.exc = <<[kind |-> "retryable", attempt |-> rt.max_retries]>>

\* every attempt of max_retries = 2 failed: three calls, two sleeps
C13_Witness ==
    /\ rt.pc = "raised"
    /\ rt.outcome = "retryable"
    /\ rt.max_retries = 2
    /\ rt.calls = 3
    /\ Len(rt.sleeps) = 2

(***************************************************************************)
(* Claims about fetch_batch, checked under FetchBatchSpec.                 *)
(***************************************************************************)
\* the positions of the inputs that parse to video id v
Occurrences(v) ==
    {k \in 1..Len(fb.inputs) : parse_video_id(fb.inputs[k]) = v}

\* the distinct valid ids among the inputs
DistinctValid == {v \in VideoIds : Occurrences(v) /= {}}

\* the first position of the inputs that parses to v
First(v) == CHOOSE k \in Occurrences(v) : \A m \in Occurrences(v) : k <= m

\* C30: fetch_batch hands process_batch each distinct valid id of its
\* inputs exactly once, in the order of first occurrence, and nothing else;
\* process_video is called at most once for an id, and when the batch
\* returns (fail_fast is off) total is the number of distinct valid ids and
\* results holds one result for each of them.
C30_EachIdOnce ==
    fb.pc = "dispatched" =>
        /\ \A v \in DistinctValid :
              Cardinality({i \in Units : video_ids[i] = v}) = 1
        /\ \A i \in Units : video_ids[i] \in DistinctValid
        /\ \A i, j \in Units :
              i < j => First(video_ids[i]) < First(video_ids[j])
        /\ BatchReturned =>
              /\ batch.result.total = Cardinality(DistinctValid)
              /\ \A i \in Units : batch.result.results[i].video_id = video_ids[i]

\* fetch_batch was given a watch URL of "a" and then the id "a" itself, and
\* returned a batch of one result
C30_Witness ==
    /\ fb.pc = "dispatched"
    /\ fb.inputs = <<Url("www.youtube.com", "/watch", "a"), Bare("a")>>
    /\ batch.pc = "done"
    /\ batch.result.total = 1
    /\ batch.result.results[1].video_id = "a"

(***************************************************************************)
(* Claims about _exit_code, checked under ExitSpec.                        *)
(***************************************************************************)
\* C31: the exit code is 0 when total = 0 or failed = 0, 3 when every unit
\* failed (failed = total > 0), and for a partial failure 2 under --strict
\* and 0 without it.
C31_ExitCode ==
    cli.pc = "exited" =>
        cli.code = (IF cli.total = 0 \/ cli.failed = 0 THEN 0
                    ELSE IF cli.failed = cli.total THEN 3
                    ELSE IF cli.strict THEN 2
                    ELSE 0)

\* a partial failure without --strict has exited with 0
C31_Witness ==
    /\ cli.pc = "exited"
    /\ cli.total = 3
    /\ cli.failed = 1
    /\ ~cli.strict
    /\ cli.code = 0

(***************************************************************************)
(* Claims about _atomic_write_json and _atomic_write_text, checked under   *)
(* WriterSpec.                                                             *)
(***************************************************************************)
\* the destination holds all the data of one write (or of the file that
\* was there before the first one), or does not exist
C39_State ==
    /\ fs.dest.exists => Complete(fs.dest)
    /\ \A t \in Writers :
          \* a call that raised removed its temporary file and has its error
          /\ fs.w[t].pc = "raised" =>
                (~fs.tmp[t].exists /\ fs.w[t].exc /= "")
          /\ fs.w[t].pc = "done" =>
                (~fs.tmp[t].exists /\ fs.w[t].exc = "")

C39_Step ==
    \* the destination changes in the step of os.replace of a call that
    \* then returns, from what it was to all the data of that call
    /\ fs'.dest /= fs.dest =>
          \E t \in Writers :
              /\ fs.w[t].pc = "replace"
              /\ fs'.w[t].pc = "done"
              /\ fs'.dest = [exists |-> TRUE, id |-> fs.w[t].id,
                             chunks |-> Pieces(fs.w[t].kind),
                             size |-> Pieces(fs.w[t].kind)]
    \* so a call on its way to raising never changes it
    /\ \A t \in Writers :
          fs'.w[t].pc \in {"except", "raised"} /\ fs'.w[t] /= fs.w[t] =>
              fs'.dest = fs.dest
    \* the handler removes the temporary file and raises the error it
    \* caught
    /\ \A t \in Writers :
          fs.w[t].pc = "except" /\ fs'.w[t] /= fs.w[t] =>
              /\ fs'.w[t].pc = "raised"
              /\ fs'.w[t].exc = fs.w[t].exc
              /\ ~fs'.tmp[t].exists

====
